---------------------------- MODULE Spec2Model ----------------------------
(***************************************************************************)
(* license-checkr: the license policy engine (src/config.rs), the license  *)
(* classifier (src/license), the workspace walker (src/detector.rs) and    *)
(* the scan driver (src/main.rs).                                          *)
(*                                                                         *)
(* A Rust String is a sequence of one-character strings, so that           *)
(* tokenizing, trimming, splitting and replacing are computed character by *)
(* character as the code computes them.  An Option<T> is a sequence of at  *)
(* most one element: <<>> is None and <<x>> is Some(x).  Rust indexes from *)
(* 0, the sequences here from 1.                                           *)
(***************************************************************************)
EXTENDS Integers, Sequences, FiniteSets, TLC

VARIABLES
    \* ---- policy engine and classifier (config.rs, license/) ----
    config,         \* the loaded Config: [default, licenses]
    license_spdx,   \* Option<&str>: the license handed to apply_policy
    verdict,        \* Option<PolicyVerdict>: what apply_policy returned
    parser,         \* Option<[pos, ntokens]>: ExprParser.pos when eval_spdx_expr returned
    risk,           \* Option<LicenseRisk>: what classify returned
    va, vb,         \* the two arguments given to verdict_or / verdict_and
    vres,           \* Option<[or, and]>: verdict_or(va, vb) and verdict_and(va, vb)
    ppc,            \* position of the policy run: "ready", "applied", "done", "idle"
    \* ---- workspace walker (detector.rs) ----
    fs,             \* the directory tree under the root: [manifests, links]
    stack,          \* the call stack of walk_for_projects: per frame the subdirs left
    visited,        \* HashSet<PathBuf> of canonical paths
    out,            \* Vec<PathBuf> of reported projects
    entered,        \* how often each canonical directory passed the visited check
    wpc,            \* position of the walk: "walking", "done", "idle"
    \* ---- scan driver (main.rs) ----
    recursive,      \* cli.recursive: workspace mode
    render_ok,      \* whether the report renderer returns Ok
    world,          \* what is on disk: one record per project directory
    tasks,          \* the spawned sub-project tasks: [pc, result]
    scans,          \* all_deps (single mode) / projects (workspace mode)
    returned,       \* Option<Result<bool>>: what run_single / run_workspace returned
    exit_code,      \* Option<int>: the exit code of the process
    outcome,        \* how the process ended
    mpc,            \* position of main
    quiet,          \* cli.quiet
    printed,        \* the per-project lines written so far, in order: [kind, project]
    completed,      \* the sub-project tasks that have finished, in the order they did
    \* ---- dependency aggregator (analyzer/, main.rs scan_project) ----
    project,        \* the project directory: its manifest sources
    excluded,       \* the ecosystems excluded on the command line
    ecosystems,     \* the detected ecosystems scan_project's loop has still to do
    all_deps,       \* scan_project's all_deps
    scan_result,    \* Option<Result<Vec<Dependency>>>: what scan_project returned
    apc,            \* position of scan_project: "start", "analyzing", "done", "idle"
    \* ---- registry enrichment (main.rs enrich_online) ----
    enrichments     \* the running calls of enrich_online, one record per call

policyVars == <<config, license_spdx, verdict, parser, risk, va, vb, vres, ppc>>
walkVars == <<fs, stack, visited, out, entered, wpc>>
scanVars == <<recursive, render_ok, world, tasks, scans, returned, exit_code, outcome, mpc,
              quiet, printed, completed>>
aggVars == <<project, excluded, ecosystems, all_deps, scan_result, apc>>
enrichVars == <<enrichments>>
vars == <<policyVars, walkVars, scanVars, aggVars, enrichVars>>

\* what the actions of one part leave alone: the variables of the other parts
PolicyFrame == UNCHANGED <<walkVars, scanVars, aggVars, enrichVars>>
WalkFrame == UNCHANGED <<policyVars, scanVars, aggVars, enrichVars>>
ScanFrame == UNCHANGED <<policyVars, walkVars, aggVars, enrichVars>>
AggFrame == UNCHANGED <<policyVars, walkVars, scanVars, enrichVars>>
EnrichFrame == UNCHANGED <<policyVars, walkVars, scanVars, aggVars>>

None == <<>>
Some(x) == <<x>>

-----------------------------------------------------------------------------
(* Strings                                                                 *)

SP == <<" ">>

\* char::is_whitespace, over the characters the inputs are built from
is_whitespace(c) == c \in {" ", "\t", "\n"}

RECURSIVE Concat(_)
\* the concatenation of a sequence of strings
Concat(parts) ==
    IF parts = <<>> THEN <<>> ELSE Head(parts) \o Concat(Tail(parts))

RECURSIVE JoinWith(_, _)
\* the strings of parts with sep between neighbours
JoinWith(parts, sep) ==
    IF parts = <<>> THEN <<>>
    ELSE IF Len(parts) = 1 THEN parts[1]
    ELSE parts[1] \o sep \o JoinWith(Tail(parts), sep)

\* str::starts_with at index i: pat occurs in s at i
MatchesAt(s, i, pat) ==
    /\ i + Len(pat) - 1 <= Len(s)
    /\ \A k \in 1..Len(pat) : s[i + k - 1] = pat[k]

\* str::contains
contains(s, pat) == \E i \in 1..(Len(s) + 1) : MatchesAt(s, i, pat)

RECURSIVE replace(_, _, _)
\* str::replace(from, to) for a one-character pattern
replace(s, from, to) ==
    IF s = <<>> THEN <<>>
    ELSE IF Head(s) = from THEN to \o replace(Tail(s), from, to)
    ELSE <<Head(s)>> \o replace(Tail(s), from, to)

RECURSIVE SplitFrom(_, _, _, _)
SplitFrom(s, pat, start, i) ==
    IF i > Len(s) THEN <<SubSeq(s, start, Len(s))>>
    ELSE IF MatchesAt(s, i, pat)
         THEN <<SubSeq(s, start, i - 1)>>
              \o SplitFrom(s, pat, i + Len(pat), i + Len(pat))
    ELSE SplitFrom(s, pat, start, i + 1)

\* str::split(pat): the pieces between the non-overlapping matches, left to right
split(s, pat) == SplitFrom(s, pat, 1, 1)

RECURSIVE trim_start(_)
trim_start(s) ==
    IF s # <<>> /\ is_whitespace(Head(s)) THEN trim_start(Tail(s)) ELSE s

RECURSIVE trim_end(_)
trim_end(s) ==
    IF s # <<>> /\ is_whitespace(s[Len(s)])
    THEN trim_end(SubSeq(s, 1, Len(s) - 1)) ELSE s

\* str::trim
trim(s) == trim_end(trim_start(s))

UpperCase == <<"A","B","C","D","E","F","G","H","I","J","K","L","M",
               "N","O","P","Q","R","S","T","U","V","W","X","Y","Z">>
LowerCase == <<"a","b","c","d","e","f","g","h","i","j","k","l","m",
               "n","o","p","q","r","s","t","u","v","w","x","y","z">>

\* char::to_ascii_lowercase
to_lower_char(c) ==
    IF \E i \in 1..Len(UpperCase) : UpperCase[i] = c
    THEN LowerCase[CHOOSE i \in 1..Len(UpperCase) : UpperCase[i] = c]
    ELSE c

\* str::to_lowercase (the inputs are ASCII)
to_lowercase(s) == [i \in 1..Len(s) |-> to_lower_char(s[i])]

\* str::eq_ignore_ascii_case
eq_ignore_ascii_case(s, t) == to_lowercase(s) = to_lowercase(t)

-----------------------------------------------------------------------------
(* Verdicts (models.rs PolicyVerdict, config.rs verdict_or / verdict_and)  *)

PolicyVerdict == {"Pass", "Warn", "Error"}

\* the PolicyAction enum, named as serde reads it from the file (rename_all lowercase)
PolicyAction == {"pass", "warn", "error"}

\* PolicyAction::to_verdict
to_verdict(action) ==
    CASE action = "pass" -> "Pass"
      [] action = "warn" -> "Warn"
      [] action = "error" -> "Error"

\* verdict_or with its first two match arms exchanged: Warn wins over Pass
verdict_or_WarnFirst(a, b) ==
    IF a = "Warn" \/ b = "Warn" THEN "Warn"
    ELSE IF a = "Pass" \/ b = "Pass" THEN "Pass"
    ELSE "Error"

\* verdict_or: the least severe of two verdicts, Pass < Warn < Error
verdict_or(a, b) ==
    IF a = "Pass" \/ b = "Pass" THEN "Pass"
    ELSE IF a = "Warn" \/ b = "Warn" THEN "Warn"
    ELSE "Error"

\* verdict_and: the most severe of two verdicts, Error > Warn > Pass
verdict_and(a, b) ==
    IF a = "Error" \/ b = "Error" THEN "Error"
    ELSE IF a = "Warn" \/ b = "Warn" THEN "Warn"
    ELSE "Pass"

-----------------------------------------------------------------------------
(* Identifiers and words the license strings are built from                *)

S_MIT == <<"M","I","T">>
S_mit == <<"m","i","t">>
S_Apache_2_0 == <<"A","p","a","c","h","e","-","2",".","0">>
S_BSD_2_Clause == <<"B","S","D","-","2","-","C","l","a","u","s","e">>
S_BSD_3_Clause == <<"B","S","D","-","3","-","C","l","a","u","s","e">>
S_ISC == <<"I","S","C">>
S_LGPL_2_1 == <<"L","G","P","L","-","2",".","1">>
S_GPL_2_0 == <<"G","P","L","-","2",".","0">>
S_GPL_3_0 == <<"G","P","L","-","3",".","0">>
S_AGPL_3_0 == <<"A","G","P","L","-","3",".","0">>
S_unknown == <<"u","n","k","n","o","w","n">>
S_CUSTOM_LICENSE == <<"C","U","S","T","O","M","-","L","I","C","E","N","S","E">>
S_Classpath_exception_2_0 ==
    <<"C","l","a","s","s","p","a","t","h","-","e","x","c","e","p","t","i","o","n","-","2",".","0">>
S_AND == <<"A","N","D">>
S_OR == <<"O","R">>
S_WITH == <<"W","I","T","H">>
S_LPAREN == <<"(">>
S_RPAREN == <<")">>
S_SLASH == <<"/">>
S_SP_OR_SP == <<" ","O","R"," ">>
S_SP_AND_SP == <<" ","A","N","D"," ">>
S_SP_WITH_SP == <<" ","W","I","T","H"," ">>

-----------------------------------------------------------------------------
(* Config (config.rs)                                                      *)

\* Config::default().policy.licenses
DefaultLicenses ==
    (S_MIT :> "pass") @@ (S_Apache_2_0 :> "pass") @@ (S_BSD_2_Clause :> "pass")
    @@ (S_BSD_3_Clause :> "pass") @@ (S_ISC :> "pass") @@ (S_LGPL_2_1 :> "warn")
    @@ (S_GPL_2_0 :> "error") @@ (S_GPL_3_0 :> "error") @@ (S_AGPL_3_0 :> "error")
    @@ (S_unknown :> "warn")

\* Config::default()
DefaultConfig == [default |-> "warn", licenses |-> DefaultLicenses]

\* a lookup that matches keys whatever their case
licenses_get_IgnoreCase(cfg, key) ==
    LET hits == {k \in DOMAIN cfg.licenses : eq_ignore_ascii_case(k, key)} IN
    IF hits # {} THEN Some(cfg.licenses[CHOOSE k \in hits : TRUE]) ELSE None

\* HashMap::get on config.policy.licenses: an exact, case-sensitive key match
licenses_get(cfg, key) ==
    IF key \in DOMAIN cfg.licenses THEN Some(cfg.licenses[key]) ELSE None

-----------------------------------------------------------------------------
(* SPDX expression parser (config.rs)                                      *)

TokAnd == [k |-> "And", s |-> <<>>]
TokOr == [k |-> "Or", s |-> <<>>]
TokWith == [k |-> "With", s |-> <<>>]
TokLParen == [k |-> "LParen", s |-> <<>>]
TokRParen == [k |-> "RParen", s |-> <<>>]
TokId(s) == [k |-> "Id", s |-> s]

\* a word match that takes the operator keywords in either case
word_token_AnyCase(s) ==
    IF s = S_AND \/ s = <<"a","n","d">> THEN TokAnd
    ELSE IF s = S_OR \/ s = <<"o","r">> THEN TokOr
    ELSE IF s = S_WITH THEN TokWith
    ELSE TokId(s)

\* the match at the end of tokenize_spdx's word branch
word_token(s) ==
    IF s = S_AND THEN TokAnd
    ELSE IF s = S_OR THEN TokOr
    ELSE IF s = S_WITH THEN TokWith
    ELSE TokId(s)

RECURSIVE word_end(_, _)
\* the inner while of tokenize_spdx: the index after the word starting at i
word_end(expr, i) ==
    IF i > Len(expr) \/ is_whitespace(expr[i]) \/ expr[i] = "(" \/ expr[i] = ")"
    THEN i
    ELSE word_end(expr, i + 1)

RECURSIVE tokenize_from(_, _)
tokenize_from(expr, i) ==
    IF i > Len(expr) THEN <<>>
    ELSE IF is_whitespace(expr[i]) THEN tokenize_from(expr, i + 1)
    ELSE IF expr[i] = "(" THEN <<TokLParen>> \o tokenize_from(expr, i + 1)
    ELSE IF expr[i] = ")" THEN <<TokRParen>> \o tokenize_from(expr, i + 1)
    ELSE LET j == word_end(expr, i)
         IN  <<word_token(SubSeq(expr, i, j - 1))>> \o tokenize_from(expr, j)

\* tokenize_spdx
tokenize_spdx(expr) == tokenize_from(expr, 1)

\* ExprParser::peek
peek(tokens, pos) == IF pos <= Len(tokens) THEN Some(tokens[pos]) ELSE None

\* ExprParser::consume: the token at pos, and pos advanced when there is one
consume(tokens, pos) ==
    [t |-> peek(tokens, pos),
     pos |-> IF peek(tokens, pos) # None THEN pos + 1 ELSE pos]

\* apply_policy_single
apply_policy_single(cfg, id) ==
    IF licenses_get(cfg, id) # None
    THEN to_verdict(licenses_get(cfg, id)[1])
    ELSE to_verdict(cfg.default)

\* The three parse functions return the verdict and ExprParser.pos after the
\* call; panic is TRUE when the call reached unreachable!().
RECURSIVE parse_or(_, _, _)
RECURSIVE parse_or_loop(_, _, _, _)
RECURSIVE parse_and(_, _, _)
RECURSIVE parse_and_loop(_, _, _, _)
RECURSIVE parse_atom(_, _, _)

\* parse_or's loop with parse_atom for the right operand: OR and AND at one level
parse_or_loop_Flat(cfg, tokens, pos, result) ==
    IF peek(tokens, pos) = Some(TokOr)
    THEN LET c == consume(tokens, pos)
             rhs == parse_atom(cfg, tokens, c.pos)
         IN  parse_or_loop(cfg, tokens, rhs.pos, verdict_or(result, rhs.v))
    ELSE IF peek(tokens, pos) = Some(TokAnd)
    THEN LET c == consume(tokens, pos)
             rhs == parse_atom(cfg, tokens, c.pos)
         IN  parse_or_loop(cfg, tokens, rhs.pos, verdict_and(result, rhs.v))
    ELSE [v |-> result, pos |-> pos, panic |-> FALSE]

\* the while loop of parse_or
parse_or_loop(cfg, tokens, pos, result) ==
    IF peek(tokens, pos) = Some(TokOr)
    THEN LET c == consume(tokens, pos)
             rhs == parse_and(cfg, tokens, c.pos)
         IN  IF rhs.panic THEN rhs
             ELSE parse_or_loop(cfg, tokens, rhs.pos, verdict_or(result, rhs.v))
    ELSE [v |-> result, pos |-> pos, panic |-> FALSE]

\* ExprParser::parse_or
parse_or(cfg, tokens, pos) ==
    LET first == parse_and(cfg, tokens, pos)
    IN  IF first.panic THEN first
        ELSE parse_or_loop(cfg, tokens, first.pos, first.v)

\* the while loop of parse_and
parse_and_loop(cfg, tokens, pos, result) ==
    IF peek(tokens, pos) = Some(TokAnd)
    THEN LET c == consume(tokens, pos)
             rhs == parse_atom(cfg, tokens, c.pos)
         IN  IF rhs.panic THEN rhs
             ELSE parse_and_loop(cfg, tokens, rhs.pos, verdict_and(result, rhs.v))
    ELSE [v |-> result, pos |-> pos, panic |-> FALSE]

\* ExprParser::parse_and
parse_and(cfg, tokens, pos) ==
    LET first == parse_atom(cfg, tokens, pos)
    IN  IF first.panic THEN first
        ELSE parse_and_loop(cfg, tokens, first.pos, first.v)

\* an atom whose parenthesised group holds an and_expr only
parse_atom_GroupAnd(cfg, tokens, pos) ==
    LET p == peek(tokens, pos) IN
    IF p # None /\ p[1].k = "LParen"
    THEN LET c == consume(tokens, pos)
             inner == parse_and(cfg, tokens, c.pos)
         IN  IF inner.panic THEN inner
             ELSE IF peek(tokens, inner.pos) = Some(TokRParen)
                  THEN [inner EXCEPT !.pos = consume(tokens, inner.pos).pos]
                  ELSE inner
    ELSE IF p # None /\ p[1].k = "Id"
    THEN LET c == consume(tokens, pos)
             id == c.t[1].s
             after == IF peek(tokens, c.pos) = Some(TokWith)
                      THEN consume(tokens, consume(tokens, c.pos).pos).pos
                      ELSE c.pos
         IN  [v |-> apply_policy_single(cfg, id), pos |-> after, panic |-> FALSE]
    ELSE [v |-> to_verdict(cfg.default), pos |-> pos, panic |-> FALSE]

\* an atom that treats "X WITH E" as "X AND E"
parse_atom_WithAsAnd(cfg, tokens, pos) ==
    LET p == peek(tokens, pos) IN
    IF p # None /\ p[1].k = "LParen"
    THEN LET c == consume(tokens, pos)
             inner == parse_or(cfg, tokens, c.pos)
         IN  IF inner.panic THEN inner
             ELSE IF peek(tokens, inner.pos) = Some(TokRParen)
                  THEN [inner EXCEPT !.pos = consume(tokens, inner.pos).pos]
                  ELSE inner
    ELSE IF p # None /\ p[1].k = "Id"
    THEN LET c == consume(tokens, pos)
             id == c.t[1].s
             exc == consume(tokens, consume(tokens, c.pos).pos)
         IN  IF peek(tokens, c.pos) = Some(TokWith)
             THEN [v |-> IF exc.t # None /\ exc.t[1].k = "Id"
                         THEN verdict_and(apply_policy_single(cfg, id),
                                          apply_policy_single(cfg, exc.t[1].s))
                         ELSE apply_policy_single(cfg, id),
                   pos |-> exc.pos, panic |-> FALSE]
             ELSE [v |-> apply_policy_single(cfg, id), pos |-> c.pos, panic |-> FALSE]
    ELSE [v |-> to_verdict(cfg.default), pos |-> pos, panic |-> FALSE]

\* ExprParser::parse_atom
parse_atom(cfg, tokens, pos) ==
    LET p == peek(tokens, pos) IN
    IF p # None /\ p[1].k = "LParen"
    THEN LET c == consume(tokens, pos)              \* consume '('
             inner == parse_or(cfg, tokens, c.pos)
         IN  IF inner.panic THEN inner
             ELSE IF peek(tokens, inner.pos) = Some(TokRParen)
                  THEN [inner EXCEPT !.pos = consume(tokens, inner.pos).pos]
                  ELSE inner
    ELSE IF p # None /\ p[1].k = "Id"
    THEN LET c == consume(tokens, pos)
         IN  IF c.t = None \/ c.t[1].k # "Id"
             THEN [v |-> to_verdict(cfg.default), pos |-> c.pos, panic |-> TRUE]
             ELSE LET id == c.t[1].s
                      \* skip the WITH clause: WITH, then whatever token follows it
                      after == IF peek(tokens, c.pos) = Some(TokWith)
                               THEN consume(tokens, consume(tokens, c.pos).pos).pos
                               ELSE c.pos
                  IN  [v |-> apply_policy_single(cfg, id), pos |-> after,
                       panic |-> FALSE]
    ELSE [v |-> to_verdict(cfg.default), pos |-> pos, panic |-> FALSE]

\* eval_spdx_expr, with the parser's final position
eval_spdx_run(cfg, expr) == parse_or(cfg, tokenize_spdx(expr), 1)

\* eval_spdx_expr
eval_spdx_expr(cfg, expr) == eval_spdx_run(cfg, expr).v

\* Option::unwrap_or("unknown") at the top of apply_policy
unwrap_or_unknown(opt) == IF opt = None THEN S_unknown ELSE opt[1]

\* apply_policy without the rewrite of "/" to " OR "
apply_policy_NoSlash(cfg, opt) ==
    LET license == unwrap_or_unknown(opt) IN
    IF licenses_get(cfg, license) # None
    THEN to_verdict(licenses_get(cfg, license)[1])
    ELSE eval_spdx_expr(cfg, license)

\* apply_policy
apply_policy(cfg, opt) ==
    LET license == unwrap_or_unknown(opt) IN
    IF licenses_get(cfg, license) # None
    THEN to_verdict(licenses_get(cfg, license)[1])
    ELSE eval_spdx_expr(cfg, replace(license, "/", S_SP_OR_SP))

-----------------------------------------------------------------------------
(* License classifier (license/spdx.rs, license/classifier.rs)             *)

LicenseRisk == {"Permissive", "WeakCopyleft", "StrongCopyleft", "Proprietary", "Unknown"}

\* the Permissive arm of classify_spdx_id
PermissiveIds ==
    { <<"M","I","T">>,
      <<"A","p","a","c","h","e","-","2",".","0">>,
      <<"B","S","D","-","2","-","C","l","a","u","s","e">>,
      <<"B","S","D","-","3","-","C","l","a","u","s","e">>,
      <<"B","S","D","-","4","-","C","l","a","u","s","e">>,
      <<"I","S","C">>,
      <<"0","B","S","D">>,
      <<"U","n","l","i","c","e","n","s","e">>,
      <<"Z","l","i","b">>,
      <<"C","C","0","-","1",".","0">>,
      <<"W","T","F","P","L">>,
      <<"C","C","-","B","Y","-","4",".","0">>,
      <<"C","C","-","B","Y","-","3",".","0">>,
      <<"P","S","F","-","2",".","0">>,
      <<"P","y","t","h","o","n","-","2",".","0">>,
      <<"M","I","T","-","0">>,
      <<"B","l","u","e","O","a","k","-","1",".","0",".","0">>,
      <<"A","r","t","i","s","t","i","c","-","2",".","0">> }

\* the WeakCopyleft arm of classify_spdx_id
WeakCopyleftIds ==
    { <<"L","G","P","L","-","2",".","0">>,
      <<"L","G","P","L","-","2",".","0","-","o","n","l","y">>,
      <<"L","G","P","L","-","2",".","0","-","o","r","-","l","a","t","e","r">>,
      <<"L","G","P","L","-","2",".","1">>,
      <<"L","G","P","L","-","2",".","1","-","o","n","l","y">>,
      <<"L","G","P","L","-","2",".","1","-","o","r","-","l","a","t","e","r">>,
      <<"L","G","P","L","-","3",".","0">>,
      <<"L","G","P","L","-","3",".","0","-","o","n","l","y">>,
      <<"L","G","P","L","-","3",".","0","-","o","r","-","l","a","t","e","r">>,
      <<"M","P","L","-","2",".","0">>,
      <<"E","U","P","L","-","1",".","2">>,
      <<"C","D","D","L","-","1",".","0">>,
      <<"E","P","L","-","1",".","0">>,
      <<"E","P","L","-","2",".","0">>,
      <<"A","P","S","L","-","2",".","0">>,
      <<"O","S","L","-","3",".","0">> }

\* the StrongCopyleft arm of classify_spdx_id
StrongCopyleftIds ==
    { <<"G","P","L","-","2",".","0">>,
      <<"G","P","L","-","2",".","0","-","o","n","l","y">>,
      <<"G","P","L","-","2",".","0","-","o","r","-","l","a","t","e","r">>,
      <<"G","P","L","-","3",".","0">>,
      <<"G","P","L","-","3",".","0","-","o","n","l","y">>,
      <<"G","P","L","-","3",".","0","-","o","r","-","l","a","t","e","r">>,
      <<"A","G","P","L","-","3",".","0">>,
      <<"A","G","P","L","-","3",".","0","-","o","n","l","y">>,
      <<"A","G","P","L","-","3",".","0","-","o","r","-","l","a","t","e","r">>,
      <<"E","U","P","L","-","1",".","1">> }

\* classify_spdx_id
classify_spdx_id(id) ==
    LET t == trim(id) IN
    IF t \in PermissiveIds THEN "Permissive"
    ELSE IF t \in WeakCopyleftIds THEN "WeakCopyleft"
    ELSE IF t \in StrongCopyleftIds THEN "StrongCopyleft"
    ELSE "Unknown"

\* spdx::normalize: the human-readable aliases of the match, else the trimmed input
normalize(raw) ==
    LET trimmed == trim(raw) IN
    IF trimmed \in { <<"A","p","a","c","h","e"," ","2",".","0">>,
                 <<"A","p","a","c","h","e"," ","L","i","c","e","n","s","e"," ","2",".","0">>,
                 <<"A","p","a","c","h","e"," ","L","i","c","e","n","s","e",","," ","V","e","r","s","i","o","n"," ","2",".","0">> }
        THEN <<"A","p","a","c","h","e","-","2",".","0">>
    ELSE IF trimmed \in { <<"M","I","T"," ","L","i","c","e","n","s","e">>,
                 <<"T","h","e"," ","M","I","T"," ","L","i","c","e","n","s","e">> }
        THEN <<"M","I","T">>
    ELSE IF trimmed \in { <<"B","S","D">>,
                 <<"B","S","D"," ","L","i","c","e","n","s","e">> }
        THEN <<"B","S","D","-","3","-","C","l","a","u","s","e">>
    ELSE IF trimmed \in { <<"B","S","D"," ","2","-","C","l","a","u","s","e">>,
                 <<"S","i","m","p","l","i","f","i","e","d"," ","B","S","D">> }
        THEN <<"B","S","D","-","2","-","C","l","a","u","s","e">>
    ELSE IF trimmed \in { <<"B","S","D"," ","3","-","C","l","a","u","s","e">>,
                 <<"N","e","w"," ","B","S","D">>,
                 <<"M","o","d","i","f","i","e","d"," ","B","S","D">> }
        THEN <<"B","S","D","-","3","-","C","l","a","u","s","e">>
    ELSE IF trimmed \in { <<"G","N","U"," ","G","P","L"," ","v","2">>,
                 <<"G","N","U"," ","G","e","n","e","r","a","l"," ","P","u","b","l","i","c"," ","L","i","c","e","n","s","e"," ","v","2">>,
                 <<"G","P","L"," ","v","2">>,
                 <<"G","P","L","v","2">> }
        THEN <<"G","P","L","-","2",".","0">>
    ELSE IF trimmed \in { <<"G","N","U"," ","G","P","L"," ","v","3">>,
                 <<"G","N","U"," ","G","e","n","e","r","a","l"," ","P","u","b","l","i","c"," ","L","i","c","e","n","s","e"," ","v","3">>,
                 <<"G","P","L"," ","v","3">>,
                 <<"G","P","L","v","3">> }
        THEN <<"G","P","L","-","3",".","0">>
    ELSE IF trimmed \in { <<"G","N","U"," ","L","G","P","L"," ","v","2",".","1">>,
                 <<"L","G","P","L"," ","v","2",".","1">>,
                 <<"L","G","P","L","v","2",".","1">> }
        THEN <<"L","G","P","L","-","2",".","1">>
    ELSE IF trimmed \in { <<"G","N","U"," ","L","G","P","L"," ","v","3">>,
                 <<"L","G","P","L"," ","v","3">>,
                 <<"L","G","P","L","v","3">> }
        THEN <<"L","G","P","L","-","3",".","0">>
    ELSE IF trimmed \in { <<"M","o","z","i","l","l","a"," ","P","u","b","l","i","c"," ","L","i","c","e","n","s","e"," ","2",".","0">>,
                 <<"M","P","L"," ","2",".","0">>,
                 <<"M","P","L","v","2">> }
        THEN <<"M","P","L","-","2",".","0">>
    ELSE IF trimmed \in { <<"I","S","C"," ","L","i","c","e","n","s","e">> }
        THEN <<"I","S","C">>
    ELSE IF trimmed \in { <<"C","C","0">>,
                 <<"P","u","b","l","i","c"," ","D","o","m","a","i","n">> }
        THEN <<"C","C","0","-","1",".","0">>
    ELSE IF trimmed \in { <<"A","G","P","L"," ","v","3">>,
                 <<"A","G","P","L","v","3">>,
                 <<"G","N","U"," ","A","G","P","L"," ","v","3">> }
        THEN <<"A","G","P","L","-","3",".","0">>
    ELSE trimmed

S_proprietary == <<"p","r","o","p","r","i","e","t","a","r","y">>
S_commercial == <<"c","o","m","m","e","r","c","i","a","l">>

\* Vec::contains over the risks of the parts
risks_contain(risks, r) == \E i \in 1..Len(risks) : risks[i] = r

\* most_permissive
most_permissive(risks) ==
    IF risks_contain(risks, "Permissive") THEN "Permissive"
    ELSE IF risks_contain(risks, "WeakCopyleft") THEN "WeakCopyleft"
    ELSE IF risks_contain(risks, "StrongCopyleft") THEN "StrongCopyleft"
    ELSE IF risks_contain(risks, "Proprietary") THEN "Proprietary"
    ELSE "Unknown"

\* a most_restrictive in which an unrecognised part is the most restrictive
most_restrictive_UnknownFirst(risks) ==
    IF risks_contain(risks, "Unknown") THEN "Unknown"
    ELSE IF risks_contain(risks, "Proprietary") THEN "Proprietary"
    ELSE IF risks_contain(risks, "StrongCopyleft") THEN "StrongCopyleft"
    ELSE IF risks_contain(risks, "WeakCopyleft") THEN "WeakCopyleft"
    ELSE "Permissive"

\* most_restrictive
most_restrictive(risks) ==
    IF risks_contain(risks, "Proprietary") THEN "Proprietary"
    ELSE IF risks_contain(risks, "StrongCopyleft") THEN "StrongCopyleft"
    ELSE IF risks_contain(risks, "WeakCopyleft") THEN "WeakCopyleft"
    ELSE IF risks_contain(risks, "Permissive") THEN "Permissive"
    ELSE "Unknown"

\* classify_single: the text before the first " WITH ", trimmed, looked up
classify_single(id) == classify_spdx_id(trim(split(id, S_SP_WITH_SP)[1]))

\* a classify that reads the string as an SPDX expression before it looks
\* for "proprietary" and "commercial"
classify_SpdxFirst(license) ==
    LET trimmed == trim(license)
        lower == to_lowercase(trimmed)
        normalized == replace(normalize(trimmed), "/", S_SP_OR_SP)
    IN
    IF trimmed = <<>> \/ eq_ignore_ascii_case(trimmed, S_unknown) THEN "Unknown"
    ELSE IF contains(normalized, S_SP_OR_SP)
         THEN LET parts == split(normalized, S_SP_OR_SP)
              IN  most_permissive([i \in 1..Len(parts) |-> classify_single(trim(parts[i]))])
    ELSE IF contains(normalized, S_SP_AND_SP)
         THEN LET parts == split(normalized, S_SP_AND_SP)
              IN  most_restrictive([i \in 1..Len(parts) |-> classify_single(trim(parts[i]))])
    ELSE IF contains(lower, S_proprietary) \/ contains(lower, S_commercial)
         THEN "Proprietary"
    ELSE classify_single(normalized)

\* classify
classify(license) ==
    LET trimmed == trim(license)
        lower == to_lowercase(trimmed)
        normalized == replace(normalize(trimmed), "/", S_SP_OR_SP)
    IN
    IF trimmed = <<>> \/ eq_ignore_ascii_case(trimmed, S_unknown) THEN "Unknown"
    ELSE IF contains(lower, S_proprietary) \/ contains(lower, S_commercial)
         THEN "Proprietary"
    ELSE IF contains(normalized, S_SP_OR_SP)
         THEN LET parts == split(normalized, S_SP_OR_SP)
              IN  most_permissive([i \in 1..Len(parts) |-> classify_single(trim(parts[i]))])
    ELSE IF contains(normalized, S_SP_AND_SP)
         THEN LET parts == split(normalized, S_SP_AND_SP)
              IN  most_restrictive([i \in 1..Len(parts) |-> classify_single(trim(parts[i]))])
    ELSE classify_single(normalized)

-----------------------------------------------------------------------------
(* Inputs of the policy engine                                             *)

\* the longest token sequence among the arbitrary (possibly malformed) inputs
MaxTokens == 4

\* identifiers the templates are instantiated with
Ids == {S_MIT, S_GPL_3_0, S_BSD_3_Clause, S_LGPL_2_1, S_GPL_2_0, S_CUSTOM_LICENSE}
PairIds == Ids \cup {S_Apache_2_0}
SingleIds == PairIds \cup {S_mit, S_unknown, S_Classpath_exception_2_0}
ExceptionIds == {S_Classpath_exception_2_0, S_MIT}

\* "A OR B AND C"
OrAndExpr(A, B, C) == Concat(<<A, S_SP_OR_SP, B, S_SP_AND_SP, C>>)
\* "(A OR B) AND C"
ParenOrAndExpr(A, B, C) ==
    Concat(<<S_LPAREN, A, S_SP_OR_SP, B, S_RPAREN, S_SP_AND_SP, C>>)
\* "X WITH E"
WithExpr(X, E) == Concat(<<X, S_SP_WITH_SP, E>>)
\* "A/B"
SlashExpr(A, B) == Concat(<<A, S_SLASH, B>>)
\* "A OR B"
OrExpr(A, B) == Concat(<<A, S_SP_OR_SP, B>>)
\* "A AND B"
AndExpr(A, B) == Concat(<<A, S_SP_AND_SP, B>>)

TemplateStrings ==
    {OrAndExpr(A, B, C) : A \in Ids, B \in Ids, C \in Ids}
    \cup {ParenOrAndExpr(A, B, C) : A \in Ids, B \in Ids, C \in Ids}
    \cup {WithExpr(X, E) : X \in Ids, E \in ExceptionIds}
    \cup {SlashExpr(A, B) : A \in PairIds, B \in PairIds}
    \cup {OrExpr(A, B) : A \in PairIds, B \in PairIds}
    \cup {AndExpr(A, B) : A \in PairIds, B \in PairIds}
    \cup SingleIds

\* the words of the arbitrary token sequences
TokenWords == {S_MIT, S_GPL_3_0, S_AND, S_OR, S_WITH, S_LPAREN, S_RPAREN}
WordSeqs == UNION {[1..n -> TokenWords] : n \in 0..MaxTokens}
\* every sequence of at most MaxTokens words, the words separated by one space
TokenStrings == {JoinWith(ws, SP) : ws \in WordSeqs}

\* a five-token input in which ')' follows WITH
S_GPL_WITH_RPAREN_OR_MIT == JoinWith(<<S_GPL_3_0, S_WITH, S_RPAREN, S_OR, S_MIT>>, SP)

\* lower-case words that are no operator keywords
S_and == <<"a","n","d">>
S_or == <<"o","r">>

\* human-readable aliases that spdx::normalize maps to an identifier
S_MIT_License == <<"M","I","T"," ","L","i","c","e","n","s","e">>
S_GPL_v3 == <<"G","P","L"," ","v","3">>
S_LGPL_v2_1 == <<"L","G","P","L"," ","v","2",".","1">>
AliasIds == {S_MIT_License, S_GPL_v3, S_LGPL_v2_1}

\* inputs of the early returns of classify: empty and "unknown" in several
\* cases, and strings that hold "proprietary" or "commercial"
S_Proprietary == <<"P","r","o","p","r","i","e","t","a","r","y">>
S_MIT_OR_Proprietary == <<"M","I","T"," ","O","R"," ","P","r","o","p","r","i","e","t","a","r","y">>
S_commercial_license == <<"c","o","m","m","e","r","c","i","a","l"," ","l","i","c","e","n","s","e">>
S_Commercial_AND_MIT == <<"C","o","m","m","e","r","c","i","a","l"," ","A","N","D"," ","M","I","T">>
EarlyStrings ==
    { <<>>, <<" ">>, <<"U","N","K","N","O","W","N">>, <<"U","n","k","n","o","w","n">>, <<" ","u","n","K","n","o","w","n"," ">>,
      S_Proprietary, S_MIT_OR_Proprietary, S_commercial_license, S_Commercial_AND_MIT,
      <<"G","P","L","-","3",".","0"," ","W","I","T","H"," ","C","o","m","m","e","r","c","i","a","l","-","e","x","c","e","p","t","i","o","n">>, <<"N","o","n","C","o","m","m","e","r","c","i","a","l","/","M","I","T">> }

\* aliases alone and with a WITH clause
AliasStrings == AliasIds \cup {WithExpr(X, E) : X \in AliasIds, E \in ExceptionIds}

\* "A B", "A and B", "A or B": tokens after the first complete expression
TrailingExpr(A, w, B) == JoinWith(IF w = <<>> THEN <<A, B>> ELSE <<A, w, B>>, SP)
TrailingStrings == {TrailingExpr(A, w, B) : A \in Ids, w \in {<<>>, S_and, S_or}, B \in Ids}

LicenseStrings ==
    TemplateStrings \cup TokenStrings \cup {S_GPL_WITH_RPAREN_OR_MIT}
    \cup EarlyStrings \cup AliasStrings \cup TrailingStrings

\* A rule table of a config file that overrides some defaults, names an exception
\* identifier and spells one key in lower case.
CustomLicenses ==
    (S_MIT :> "warn") @@ (S_GPL_3_0 :> "pass") @@ (S_LGPL_2_1 :> "error")
    @@ (S_mit :> "error") @@ (S_Classpath_exception_2_0 :> "error")

\* A rule table of a config file whose keys include whole expressions: the keys
\* of the table are arbitrary strings of the TOML file.
CompoundLicenses ==
    DefaultLicenses
    @@ (WithExpr(S_GPL_2_0, S_Classpath_exception_2_0) :> "pass")
    @@ (SlashExpr(S_MIT, S_Apache_2_0) :> "error")
    @@ (OrExpr(S_MIT, S_GPL_3_0) :> "error")
    @@ (ParenOrAndExpr(S_MIT, S_GPL_3_0, S_GPL_3_0) :> "pass")
    @@ (OrAndExpr(S_MIT, S_GPL_3_0, S_BSD_3_Clause) :> "error")
    @@ (TrailingExpr(S_MIT, S_and, S_GPL_3_0) :> "error")

\* A config file with no [policy.licenses] table
EmptyLicenses == [key \in {} |-> "warn"]

RuleTables == {DefaultLicenses, CustomLicenses, CompoundLicenses, EmptyLicenses}

\* the configs load_config can return: any default action with any rule table
Configs == [default : PolicyAction, licenses : RuleTables]

-----------------------------------------------------------------------------
(* The policy run: apply_policy and classify applied to one license        *)

PolicyIdle ==
    /\ config = DefaultConfig
    /\ license_spdx = None
    /\ verdict = None
    /\ parser = None
    /\ risk = None
    /\ va = "Pass"
    /\ vb = "Pass"
    /\ vres = None
    /\ ppc = "idle"

InitLicense ==
    /\ config \in Configs
    /\ license_spdx \in {None} \cup {Some(s) : s \in LicenseStrings}
    /\ verdict = None
    /\ parser = None
    /\ risk = None
    /\ va = "Pass"
    /\ vb = "Pass"
    /\ vres = None
    /\ ppc = "ready"

InitOperands ==
    /\ config = DefaultConfig
    /\ license_spdx = None
    /\ verdict = None
    /\ parser = None
    /\ risk = None
    /\ va \in PolicyVerdict
    /\ vb \in PolicyVerdict
    /\ vres = None
    /\ ppc = "operands"

\* apply_policy(&config, license_spdx); parser records ExprParser.pos and the
\* token count when the expression parser ran
ApplyPolicy ==
    /\ ppc = "ready"
    /\ verdict' = Some(apply_policy(config, license_spdx))
    /\ parser' =
         LET license == unwrap_or_unknown(license_spdx)
             expr == replace(license, "/", S_SP_OR_SP)
             run == eval_spdx_run(config, expr)
         IN  IF licenses_get(config, license) # None THEN None
             ELSE Some([pos |-> run.pos, ntokens |-> Len(tokenize_spdx(expr)),
                        panic |-> run.panic])
    /\ ppc' = "applied"
    /\ UNCHANGED <<config, license_spdx, risk, va, vb, vres>>
    /\ PolicyFrame

\* classify(license) on the same license, "unknown" when there is none
Classify ==
    /\ ppc = "applied"
    /\ risk' = Some(classify(unwrap_or_unknown(license_spdx)))
    /\ ppc' = "done"
    /\ UNCHANGED <<config, license_spdx, verdict, parser, va, vb, vres>>
    /\ PolicyFrame

\* verdict_or and verdict_and applied to one pair of verdicts
Combine ==
    /\ ppc = "operands"
    /\ vres' = Some([or |-> verdict_or(va, vb), and |-> verdict_and(va, vb)])
    /\ ppc' = "done"
    /\ UNCHANGED <<config, license_spdx, verdict, parser, risk, va, vb>>
    /\ PolicyFrame

-----------------------------------------------------------------------------
(* File system seen by the workspace walker (detector.rs)                  *)
(*                                                                         *)
(* A path is the sequence of its components below the root, <<>> the root  *)
(* itself (main canonicalizes the root before the walk).  The real         *)
(* directories are Dirs; a directory may also hold one symlink, named      *)
(* LinkName, to any real directory.  A file name is [stem, ext].           *)

\* the most symlinks a tree holds
MaxLinks == 1

Dirs == {<<>>, <<"a">>, <<"a", "n">>, <<"target">>, <<"z">>, <<"z", "n">>}
LinkName == "l"

\* byte order of the component names, which PathBuf's Ord compares
NameOrder == <<"a", "l", "n", "target", "z">>
NameRank(name) == CHOOSE i \in 1..Len(NameOrder) : NameOrder[i] = name

File(stem, ext) == [stem |-> stem, ext |-> ext]

\* MANIFEST_FILES
MANIFEST_FILES ==
    { File("Cargo", "toml"), File("Cargo", "lock"), File("requirements", "txt"),
      File("pyproject", "toml"), File("Pipfile", "lock"), File("pom", "xml"),
      File("build", "gradle"), File("build.gradle", "kts"), File("package", "json"),
      File("package-lock", "json"), File("yarn", "lock"), File("packages", "config"),
      File("paket", "dependencies") }

\* SKIP_DIRS
SKIP_DIRS ==
    { "node_modules", ".git", "target", "vendor", ".cargo", "__pycache__", ".venv",
      "venv", "dist", "build", ".next", ".nuxt", "bin", "obj" }

\* what the files of one directory can be
FileChoices(d) ==
    IF d = <<"a">>
    THEN { {}, {File("Cargo", "toml")}, {File("app", "csproj")}, {File("README", "md")} }
    ELSE IF Len(d) = 2 THEN { {}, {File("package", "json")} }
    ELSE { {}, {File("Cargo", "toml")} }

\* the directories that may hold the symlink LinkName: the root, an inner
\* directory and a leaf
LinkDirs == {<<>>, <<"z">>, <<"a", "n">>}

\* the symlinks of a tree: for some directories, the directory LinkName points to
LinkChoices ==
    { l \in [Dirs -> {None} \cup {Some(t) : t \in Dirs}] :
        /\ \A d \in Dirs \ LinkDirs : l[d] = None
        /\ Cardinality({d \in Dirs : l[d] # None}) <= MaxLinks }

\* the trees the walker is run on
FileSystems ==
    { [files |-> f, links |-> l] :
        f \in {g \in [Dirs -> UNION {FileChoices(d) : d \in Dirs}] :
                 \A d \in Dirs : g[d] \in FileChoices(d)},
        l \in LinkChoices }

RECURSIVE Resolve(_, _, _)
\* the real directory a path leads to from the real directory at, following
\* symlinks; None when a component names no directory
Resolve(tree, at, path) ==
    IF path = <<>> THEN Some(at)
    ELSE LET name == Head(path) IN
         IF name = LinkName /\ tree.links[at] # None
         THEN Resolve(tree, tree.links[at][1], Tail(path))
         ELSE IF Append(at, name) \in Dirs
         THEN Resolve(tree, Append(at, name), Tail(path))
         ELSE None

\* Path::canonicalize with the key of a path that was not resolved: the path itself
canonicalize_Lexical(tree, path) == Some(path)

\* Path::canonicalize: Ok(the real path), or Err
canonicalize(tree, path) == Resolve(tree, <<>>, path)

\* Path::is_dir, which follows symlinks
is_dir(tree, path) == Resolve(tree, <<>>, path) # None

\* the files directly inside the directory a path leads to
files_in(tree, path) ==
    IF Resolve(tree, <<>>, path) = None THEN {}
    ELSE tree.files[Resolve(tree, <<>>, path)[1]]

\* has_dotnet_project_file
has_dotnet_project_file(tree, path) ==
    \E f \in files_in(tree, path) : f.ext \in {"csproj", "fsproj"}

\* an is_project test that any file in the directory satisfies
is_project_AnyFile(tree, path) == files_in(tree, path) # {}

\* the is_project test of walk_for_projects
is_project(tree, path) ==
    \/ \E f \in MANIFEST_FILES : f \in files_in(tree, path)
    \/ has_dotnet_project_file(tree, path)

\* the names std::fs::read_dir yields that are directories: the real
\* subdirectories and the symlink (its target is a directory)
dir_entries(tree, path) ==
    LET real == Resolve(tree, <<>>, path)[1]
    IN  {name \in {NameOrder[i] : i \in 1..Len(NameOrder)} :
           \/ Append(real, name) \in Dirs
           \/ name = LinkName /\ tree.links[real] # None}

RECURSIVE path_less(_, _)
\* PathBuf's Ord: component by component, a proper prefix first
path_less(p, q) ==
    IF q = <<>> THEN FALSE
    ELSE IF p = <<>> THEN TRUE
    ELSE IF Head(p) = Head(q) THEN path_less(Tail(p), Tail(q))
    ELSE NameRank(Head(p)) < NameRank(Head(q))

RECURSIVE insert_sorted(_, _)
insert_sorted(sorted, p) ==
    IF sorted = <<>> THEN <<p>>
    ELSE IF path_less(p, Head(sorted)) THEN <<p>> \o sorted
    ELSE <<Head(sorted)>> \o insert_sorted(Tail(sorted), p)

RECURSIVE sort(_)
\* Vec::sort (stable) on paths
sort(paths) ==
    IF paths = <<>> THEN <<>>
    ELSE insert_sorted(sort(SubSeq(paths, 1, Len(paths) - 1)), paths[Len(paths)])

\* the orders in which read_dir can yield the names of a set
Enumerations(names) ==
    {e \in [1..Cardinality(names) -> names] :
       \A i, j \in 1..Cardinality(names) : i # j => e[i] # e[j]}

RECURSIVE SelectSeq2(_, _)
\* the filter_map of walk_for_projects on the entries in the order read: the
\* paths of the directories whose name is not in SKIP_DIRS
SelectSeq2(dir, names) ==
    IF names = <<>> THEN <<>>
    ELSE (IF Head(names) \in SKIP_DIRS THEN <<>> ELSE <<Append(dir, Head(names))>>)
         \o SelectSeq2(dir, Tail(names))

\* subdirs of walk_for_projects without subdirs.sort(): the order read
subdirs_of_Unsorted(dir, enumeration) == SelectSeq2(dir, enumeration)

\* subdirs of walk_for_projects for one enumeration order, after subdirs.sort()
subdirs_of(dir, enumeration) == sort(SelectSeq2(dir, enumeration))

-----------------------------------------------------------------------------
(* The walk: find_workspace_projects and walk_for_projects                 *)
(*                                                                         *)
(* stack[1] is the innermost frame: the paths its for loop has still to    *)
(* walk.  The outermost frame holds the call find_workspace_projects makes *)
(* on the root.                                                            *)

WalkIdle ==
    /\ fs = [files |-> [d \in Dirs |-> {}], links |-> [d \in Dirs |-> None]]
    /\ stack = <<>>
    /\ visited = {}
    /\ out = <<>>
    /\ entered = [d \in Dirs |-> 0]
    /\ wpc = "idle"

InitWalk ==
    /\ fs \in FileSystems
    /\ stack = << << <<>> >> >>
    /\ visited = {}
    /\ out = <<>>
    /\ entered = [d \in Dirs |-> 0]
    /\ wpc = "walking"

\* the next call of walk_for_projects: the first path of the innermost frame
NextDir == stack[1][1]
CallPending == wpc = "walking" /\ stack # <<>> /\ stack[1] # <<>>
\* the stack with the pending call taken off the innermost frame
Popped == <<Tail(stack[1])>> \o Tail(stack)

\* walk_for_projects(dir) returns at once: canonicalize failed, or the
\* canonical path was already in visited
WalkSkip ==
    /\ CallPending
    /\ LET canonical == canonicalize(fs, NextDir) IN
       canonical = None \/ canonical[1] \in visited
    /\ stack' = Popped
    /\ UNCHANGED <<fs, visited, out, entered, wpc>>
    /\ WalkFrame

\* walk_for_projects(dir) finds a project: it is pushed to out and the call returns
WalkProject ==
    /\ CallPending
    /\ LET canonical == canonicalize(fs, NextDir) IN
       /\ canonical # None /\ canonical[1] \notin visited
       /\ visited' = visited \cup {canonical[1]}
    /\ is_project(fs, NextDir)
    /\ out' = Append(out, NextDir)
    /\ entered' = [entered EXCEPT ![Resolve(fs, <<>>, NextDir)[1]] = @ + 1]
    /\ stack' = Popped
    /\ UNCHANGED <<fs, wpc>>
    /\ WalkFrame

\* walk_for_projects(dir) is no project: it reads the directory in whatever
\* order the file system yields it, sorts the subdirectories kept and starts
\* its for loop
WalkDescend ==
    /\ CallPending
    /\ LET canonical == canonicalize(fs, NextDir) IN
       /\ canonical # None /\ canonical[1] \notin visited
       /\ visited' = visited \cup {canonical[1]}
    /\ ~is_project(fs, NextDir)
    /\ \E enumeration \in Enumerations(dir_entries(fs, NextDir)) :
          stack' = <<subdirs_of(NextDir, enumeration)>> \o Popped
    /\ entered' = [entered EXCEPT ![Resolve(fs, <<>>, NextDir)[1]] = @ + 1]
    /\ UNCHANGED <<fs, out, wpc>>
    /\ WalkFrame

\* the for loop of a walk_for_projects call is over: the call returns
WalkReturn ==
    /\ wpc = "walking"
    /\ stack # <<>> /\ stack[1] = <<>>
    /\ stack' = Tail(stack)
    /\ UNCHANGED <<fs, visited, out, entered, wpc>>
    /\ WalkFrame

\* find_workspace_projects after the walk: results.sort() and return
WalkFinish ==
    /\ wpc = "walking"
    /\ stack = <<>>
    /\ out' = sort(out)
    /\ wpc' = "done"
    /\ UNCHANGED <<fs, stack, visited, entered>>
    /\ WalkFrame

-----------------------------------------------------------------------------
(* The scan driver (main.rs): main, run_single, run_workspace              *)
(*                                                                         *)
(* world is what the run finds on disk, one record per project directory:  *)
(* the directory itself in single-project mode, the result of              *)
(* find_workspace_projects in workspace mode.                              *)

\* the most sub-projects a workspace holds
MaxProjects == 2

\* a Dependency as an analyzer creates it: license_raw and license_spdx both
\* the manifest's license, risk and verdict the placeholders
NewDependency(license) ==
    [license_raw |-> license, license_spdx |-> license,
     risk |-> "Unknown", verdict |-> "Warn"]

\* the dependency lists a project's manifests can yield
DepLists ==
    { <<>>,
      <<NewDependency(Some(S_MIT))>>,
      <<NewDependency(None), NewDependency(Some(S_LGPL_2_1))>>,
      <<NewDependency(Some(S_MIT)), NewDependency(Some(S_GPL_3_0))>> }

\* a project-local config file that fails what the built-in default passes
StrictConfig == [default |-> "error", licenses |-> CustomLicenses]

\* What one project directory holds.  config: what load_config returns, None
\* for Err.  detected: detect_ecosystems minus the excluded ones is not empty.
\* analysis: how the analyzers end ("ok", "err" for an Err, "panic").
\* deps: what they return when they end well.
ProjectInputs ==
    { [config |-> None, detected |-> FALSE, analysis |-> "ok", deps |-> <<>>] }
    \cup { [config |-> Some(c), detected |-> FALSE, analysis |-> "ok", deps |-> <<>>] :
             c \in {DefaultConfig, StrictConfig} }
    \cup { [config |-> Some(DefaultConfig), detected |-> TRUE, analysis |-> a, deps |-> <<>>] :
             a \in {"err", "panic"} }
    \cup { [config |-> Some(c), detected |-> TRUE, analysis |-> "ok", deps |-> d] :
             c \in {DefaultConfig, StrictConfig}, d \in DepLists }

Ok(x) == [kind |-> "Ok", value |-> x]
Err == [kind |-> "Err", value |-> <<>>]
Panic == [kind |-> "Panic", value |-> <<>>]

\* scan_project: Ok(empty) when no ecosystem is detected, the analyzers'
\* error passed on by `?`, else all their dependencies
scan_project(input) ==
    IF ~input.detected THEN Ok(<<>>)
    ELSE IF input.analysis = "err" THEN Err
    ELSE IF input.analysis = "panic" THEN Panic
    ELSE Ok(input.deps)

\* the license the classify loop reads from a dependency
license_of(dep) ==
    IF dep.license_spdx # None THEN dep.license_spdx[1]
    ELSE IF dep.license_raw # None THEN dep.license_raw[1]
    ELSE S_unknown

\* a classify loop that applies the built-in default policy to every project
classify_all_DefaultConfig(cfg, deps) ==
    [i \in 1..Len(deps) |->
        [deps[i] EXCEPT !.risk = classify(license_of(deps[i])),
                        !.verdict = apply_policy(DefaultConfig, Some(license_of(deps[i])))]]

\* the classify + apply policy loop of run_single and of a workspace task
classify_all(cfg, deps) ==
    [i \in 1..Len(deps) |->
        [deps[i] EXCEPT !.risk = classify(license_of(deps[i])),
                        !.verdict = apply_policy(cfg, Some(license_of(deps[i])))]]

\* any(|d| d.verdict == Error) that also counts Warn
any_error_OrWarn(deps) ==
    \E i \in 1..Len(deps) : deps[i].verdict \in {"Error", "Warn"}

\* all_deps.iter().any(|d| d.verdict == PolicyVerdict::Error)
any_error(deps) == \E i \in 1..Len(deps) : deps[i].verdict = "Error"

\* projects.iter().flat_map(|p| &p.deps).any(|d| d.verdict == Error)
any_error_in(projects) ==
    \E k \in 1..Len(projects) : any_error(projects[k].deps)

\* ProjectScan; name and path are the project's index in world
ProjectScan(i, deps) == [index |-> i, deps |-> deps]

RECURSIVE retain_nonempty(_)
\* projects.retain(|p| !p.deps.is_empty())
retain_nonempty(projects) ==
    IF projects = <<>> THEN <<>>
    ELSE (IF Head(projects).deps # <<>> THEN <<Head(projects)>> ELSE <<>>)
         \o retain_nonempty(Tail(projects))

RECURSIVE first_failure(_, _)
\* the map(expect) and collect::<Result<Vec<_>>>() over the join results in
\* task order: the first result that is no Ok decides, 0 when all are Ok
first_failure(results, i) ==
    IF i > Len(results) THEN 0
    ELSE IF results[i].kind # "Ok" THEN i
    ELSE first_failure(results, i + 1)

\* a per-project line of the output
Line(kind, i) == [kind |-> kind, project |-> i]

\* scan_project that prints its dependency count whatever quiet says
scan_output_Loud(i, input, q) ==
    IF input.detected /\ input.analysis = "ok" THEN <<Line("count", i)>> ELSE <<>>

\* what scan_project prints: if !quiet, the dependency count of an
\* ecosystem once its analyzer has returned Ok
scan_output(i, input, q) ==
    IF ~q /\ input.detected /\ input.analysis = "ok" THEN <<Line("count", i)>> ELSE <<>>

\* run_workspace's scan summaries: if !cli.quiet, for each project in the
\* order of projects its "scanning" line and its dependency counts
summaries(projects, q) ==
    IF q THEN <<>>
    ELSE [j \in 1..(2 * Len(projects)) |->
             IF j % 2 = 1 THEN Line("summary", projects[(j + 1) \div 2].index)
             ELSE Line("count", projects[j \div 2].index)]

ReportFormats == {"Terminal", "Json", "Pdf"}

\* the per-project sections of the report, in the order of projects; the
\* quiet terminal report is the line of totals alone
report_rows(format, projects, q) ==
    IF format = "Terminal" /\ q THEN <<>>
    ELSE [k \in 1..Len(projects) |-> Line("row", projects[k].index)]

ScanIdle ==
    /\ recursive = FALSE
    /\ render_ok = TRUE
    /\ world = <<>>
    /\ tasks = <<>>
    /\ scans = <<>>
    /\ returned = None
    /\ exit_code = None
    /\ outcome = "none"
    /\ mpc = "idle"
    /\ quiet = FALSE
    /\ printed = <<>>
    /\ completed = <<>>

InitScan ==
    /\ recursive \in BOOLEAN
    /\ render_ok \in BOOLEAN
    /\ world \in UNION {[1..n -> ProjectInputs] : n \in 0..MaxProjects}
    /\ recursive \/ Len(world) = 1
    /\ tasks = <<>>
    /\ scans = <<>>
    /\ returned = None
    /\ exit_code = None
    /\ outcome = "none"
    /\ mpc = "start"
    /\ quiet \in BOOLEAN
    /\ printed = <<>>
    /\ completed = <<>>

\* run_single up to scan_project: load_config, detect_ecosystems (exit(1)
\* when nothing is detected), scan_project
RunSingleScan ==
    /\ mpc = "start" /\ ~recursive
    /\ LET input == world[1]
           result == scan_project(input)
       IN  IF input.config = None \/ (input.detected /\ result.kind = "Err")
           THEN /\ returned' = Some(Err)
                /\ mpc' = "returned"
                /\ UNCHANGED <<scans, exit_code, outcome>>
           ELSE IF ~input.detected
           THEN /\ exit_code' = Some(1)
                /\ outcome' = "no_manifests"
                /\ mpc' = "exited"
                /\ UNCHANGED <<scans, returned>>
           ELSE IF result.kind = "Panic"
           THEN /\ exit_code' = Some(101)
                /\ outcome' = "panicked"
                /\ mpc' = "exited"
                /\ UNCHANGED <<scans, returned>>
           ELSE /\ scans' = <<ProjectScan(1, result.value)>>
                /\ mpc' = "scanned"
                /\ UNCHANGED <<returned, exit_code, outcome>>
    /\ UNCHANGED <<recursive, quiet, render_ok, world, tasks>>
    /\ printed' = printed \o (IF world[1].config # None
                               THEN scan_output(1, world[1], quiet) ELSE <<>>)
    /\ UNCHANGED completed
    /\ ScanFrame

\* run_single: the classify + apply policy loop over all_deps
RunSingleClassify ==
    /\ mpc = "scanned" /\ ~recursive
    /\ scans' = <<ProjectScan(1, classify_all(world[1].config[1], scans[1].deps))>>
    /\ mpc' = "classified"
    /\ UNCHANGED <<recursive, quiet, render_ok, world, tasks, returned, exit_code, outcome>>
    /\ UNCHANGED <<printed, completed>>
    /\ ScanFrame

\* run_single: render the report (its error passed on by `?`) and return
\* whether any verdict is Error
RunSingleRender ==
    /\ mpc = "classified" /\ ~recursive
    /\ returned' = IF render_ok THEN Some(Ok(any_error(scans[1].deps))) ELSE Some(Err)
    /\ mpc' = "returned"
    /\ UNCHANGED <<recursive, quiet, render_ok, world, tasks, scans, exit_code, outcome>>
    /\ \E format \in ReportFormats :
          printed' = printed \o (IF render_ok THEN report_rows(format, scans, quiet)
                                  ELSE <<>>)
    /\ UNCHANGED completed
    /\ ScanFrame

\* run_workspace up to the spawn: find_workspace_projects, exit(1) when it
\* finds nothing, else one task spawned per project
RunWorkspaceSpawn ==
    /\ mpc = "start" /\ recursive
    /\ IF world = <<>>
       THEN /\ exit_code' = Some(1)
            /\ outcome' = "no_subprojects"
            /\ mpc' = "exited"
            /\ UNCHANGED tasks
       ELSE /\ tasks' = [i \in 1..Len(world) |-> [pc |-> "spawned", result |-> Ok(<<>>)]]
            /\ mpc' = "joining"
            /\ UNCHANGED <<exit_code, outcome>>
    /\ UNCHANGED <<recursive, quiet, render_ok, world, scans, returned>>
    /\ UNCHANGED <<printed, completed>>
    /\ ScanFrame

\* a spawned task up to the end of scan_project: load_config and scan_project,
\* the task ending at once on an Err or a panic
TaskScan(i) ==
    /\ mpc = "joining"
    /\ tasks[i].pc = "spawned"
    /\ LET input == world[i]
           result == scan_project(input)
       IN  tasks' = [tasks EXCEPT ![i] =
              IF input.config = None THEN [pc |-> "done", result |-> Err]
              ELSE IF result.kind # "Ok" THEN [pc |-> "done", result |-> result]
              ELSE [pc |-> "scanned", result |-> result]]
    /\ UNCHANGED <<recursive, quiet, render_ok, world, scans, returned, exit_code, outcome, mpc>>
    /\ printed' = printed \o (IF world[i].config # None
                               THEN scan_output(i, world[i], TRUE) ELSE <<>>)
    /\ completed' = IF tasks'[i].pc = "done" THEN Append(completed, i) ELSE completed
    /\ ScanFrame

\* a spawned task after scan_project: the classify + apply policy loop with the
\* project's own config, and the ProjectScan returned
TaskFinish(i) ==
    /\ mpc = "joining"
    /\ tasks[i].pc = "scanned"
    /\ tasks' = [tasks EXCEPT ![i] =
          [pc |-> "done",
           result |-> Ok(classify_all(world[i].config[1], tasks[i].result.value))]]
    /\ UNCHANGED <<recursive, quiet, render_ok, world, scans, returned, exit_code, outcome, mpc>>
    /\ completed' = Append(completed, i)
    /\ UNCHANGED printed
    /\ ScanFrame

\* run_workspace after join_all: expect and collect over the results in task
\* order, the projects without dependencies dropped, Ok(false) when none is left
RunWorkspaceJoin ==
    /\ mpc = "joining"
    /\ \A i \in 1..Len(tasks) : tasks[i].pc = "done"
    /\ LET results == [i \in 1..Len(tasks) |-> tasks[i].result]
           bad == first_failure(results, 1)
           projects == retain_nonempty([i \in 1..Len(tasks) |->
                                           ProjectScan(i, results[i].value)])
       IN  IF bad # 0 /\ results[bad].kind = "Panic"
           THEN /\ exit_code' = Some(101)
                /\ outcome' = "panicked"
                /\ mpc' = "exited"
                /\ UNCHANGED <<scans, returned>>
           ELSE IF bad # 0
           THEN /\ returned' = Some(Err)
                /\ mpc' = "returned"
                /\ UNCHANGED <<scans, exit_code, outcome>>
           ELSE IF projects = <<>>
           THEN /\ returned' = Some(Ok(FALSE))
                /\ mpc' = "returned"
                /\ UNCHANGED <<scans, exit_code, outcome>>
           ELSE /\ scans' = projects
                /\ mpc' = "joined"
                /\ UNCHANGED <<returned, exit_code, outcome>>
    /\ UNCHANGED <<recursive, quiet, render_ok, world, tasks>>
    /\ UNCHANGED <<printed, completed>>
    /\ ScanFrame

\* run_workspace: print the summaries, render the report (its error passed on
\* by `?`) and return whether any verdict of any project is Error
RunWorkspaceRender ==
    /\ mpc = "joined" /\ recursive
    /\ returned' = IF render_ok THEN Some(Ok(any_error_in(scans))) ELSE Some(Err)
    /\ mpc' = "returned"
    /\ UNCHANGED <<recursive, quiet, render_ok, world, tasks, scans, exit_code, outcome>>
    /\ \E format \in ReportFormats :
          printed' = printed \o summaries(scans, quiet)
                             \o (IF render_ok THEN report_rows(format, scans, quiet)
                                 ELSE <<>>)
    /\ UNCHANGED completed
    /\ ScanFrame

\* main after run_single / run_workspace returned: an Err leaves main with
\* exit code 1, Ok(true) calls exit(1), Ok(false) ends with exit code 0
MainExit ==
    /\ mpc = "returned"
    /\ exit_code' = IF returned[1].kind = "Err" \/ returned[1].value THEN Some(1)
                    ELSE Some(0)
    /\ outcome' = IF returned[1].kind = "Err" THEN "failed" ELSE "completed"
    /\ mpc' = "exited"
    /\ UNCHANGED <<recursive, quiet, render_ok, world, tasks, scans, returned>>
    /\ UNCHANGED <<printed, completed>>
    /\ ScanFrame

-----------------------------------------------------------------------------
(* The dependency aggregator: detect_ecosystems, the five analyzers and    *)
(* scan_project's loop over them (detector.rs, analyzer/*.rs, main.rs)     *)
(*                                                                         *)
(* A manifest source is absent, "bad" (it exists but its parser returns    *)
(* Err: unreadable or malformed) or "ok" with the entries its parser       *)
(* yields.  The manifest grammars themselves are not modelled.             *)

\* the most *.csproj / *.fsproj files a project directory holds
MaxProjectFiles == 2

Ecosystem == {"Rust", "Python", "Java", "Node", "DotNet"}

Absent == [state |-> "absent", entries |-> <<>>]
Bad == [state |-> "bad", entries |-> <<>>]
Parsed(entries) == [state |-> "ok", entries |-> entries]

\* Path::exists on a manifest source
exists(src) == src.state # "absent"

S_foo == <<"f","o","o">>
S_Foo == <<"F","o","o">>
S_bar == <<"b","a","r">>
S_g == <<"g">>
S_g_foo == <<"g",":","f","o","o">>
S_linux == <<"l","i","n","u","x">>
S_1_0 == <<"1",".","0">>
S_2_0 == <<"2",".","0">>
S_1_0_linux == <<"1",".","0",":","l","i","n","u","x">>

\* a Dependency as the analyzers create it
Dependency(ecosystem, name, version, license, source) ==
    [name |-> name, version |-> version, ecosystem |-> ecosystem,
     license_raw |-> license, license_spdx |-> license,
     risk |-> "Unknown", verdict |-> "Warn",
     source |-> IF license # None THEN source ELSE "Unknown"]

\* what a parser yields for one package: name and version, the license where
\* the manifest or the local cache holds one
Entry(name, version, license) == [name |-> name, version |-> version, license |-> license]

\* a [[package]] of Cargo.lock: source is None for a local workspace member
CargoLockPackage(name, version, source, license) ==
    [name |-> name, version |-> version, source |-> source, license |-> license]

\* a Maven coordinate as parse_pom_xml, parse_build_gradle and
\* parse_gradle_lockfile hand it to make_dep
Coordinate(group_id, artifact_id, version) ==
    [group_id |-> group_id, artifact_id |-> artifact_id, version |-> version]

\* the contents a manifest source of Python, Node or .NET can have
EntryLists ==
    { <<Entry(S_foo, S_1_0, None)>>,
      <<Entry(S_foo, S_1_0, None), Entry(S_foo, S_1_0, None)>>,
      <<Entry(S_Foo, S_1_0, None), Entry(S_bar, S_2_0, Some(S_MIT))>>,
      <<Entry(S_foo, S_2_0, None)>> }

\* the contents of Cargo.lock: one crate, a crate locked twice (from two
\* sources), a workspace member next to a crate
CargoLocks ==
    { <<CargoLockPackage(S_foo, S_1_0, Some("registry"), Some(S_MIT))>>,
      <<CargoLockPackage(S_foo, S_1_0, Some("registry"), Some(S_MIT)),
        CargoLockPackage(S_foo, S_1_0, Some("git"), None)>>,
      <<CargoLockPackage(S_bar, S_2_0, None, None),
        CargoLockPackage(S_foo, S_1_0, Some("registry"), None)>> }

\* the contents of a Java manifest source: g:foo:1.0, the same twice, and the
\* two readings of "g:foo:1.0:linux" (build.gradle's regex takes the group
\* greedily, gradle.lockfile's takes the version up to "=")
CoordinateLists ==
    { <<Coordinate(S_g, S_foo, S_1_0)>>,
      <<Coordinate(S_g, S_foo, S_1_0), Coordinate(S_g, S_foo, S_1_0)>>,
      <<Coordinate(S_g_foo, S_1_0, S_linux)>>,
      <<Coordinate(S_g, S_foo, S_1_0_linux)>> }

Sources(lists) == {Absent, Bad} \cup {Parsed(l) : l \in lists}

\* the manifest sources of each ecosystem
RustManifests ==
    [cargo_toml : BOOLEAN, cargo_lock : Sources(CargoLocks)]
PythonManifests ==
    [pipfile_lock : Sources(EntryLists), requirements_txt : Sources(EntryLists),
     pyproject_toml : Sources(EntryLists)]
JavaManifests ==
    [pom_xml : Sources(CoordinateLists), build_gradle : Sources(CoordinateLists),
     build_gradle_kts : Sources(CoordinateLists),
     gradle_lockfile : Sources(CoordinateLists)]
NodeManifests ==
    [package_lock_json : Sources(EntryLists), yarn_lock : Sources(EntryLists),
     package_json : Sources(EntryLists)]
DotNetManifests ==
    [project_files : UNION {[1..n -> Sources(EntryLists) \ {Absent}] :
                               n \in 0..MaxProjectFiles},
     packages_config : Sources(EntryLists), paket_lock : Sources(EntryLists),
     paket_dependencies : BOOLEAN]

NoRust == [cargo_toml |-> FALSE, cargo_lock |-> Absent]
NoPython ==
    [pipfile_lock |-> Absent, requirements_txt |-> Absent, pyproject_toml |-> Absent]
NoJava ==
    [pom_xml |-> Absent, build_gradle |-> Absent, build_gradle_kts |-> Absent,
     gradle_lockfile |-> Absent]
NoNode == [package_lock_json |-> Absent, yarn_lock |-> Absent, package_json |-> Absent]
NoDotNet ==
    [project_files |-> <<>>, packages_config |-> Absent, paket_lock |-> Absent,
     paket_dependencies |-> FALSE]

\* a project directory: the manifest sources of the five ecosystems
Project(rust, python, java, node, dotnet) == rust @@ python @@ java @@ node @@ dotnet

\* what else a polyglot project holds next to the ecosystem varied: nothing, a
\* readable Cargo.lock, or a malformed Cargo.lock
RustBackgrounds ==
    { NoRust,
      [cargo_toml |-> TRUE,
       cargo_lock |-> Parsed(<<CargoLockPackage(S_bar, S_1_0, Some("registry"), None)>>)],
      [cargo_toml |-> TRUE, cargo_lock |-> Bad] }

\* the project directories scan_project is run on
Projects ==
    {Project(r, NoPython, NoJava,
             [package_lock_json |-> Absent, yarn_lock |-> Absent, package_json |-> pj],
             NoDotNet) :
        r \in RustManifests, pj \in {Absent, Parsed(<<Entry(S_foo, S_1_0, None)>>)}}
    \cup {Project(r, m, NoJava, NoNode, NoDotNet) :
             r \in RustBackgrounds, m \in PythonManifests}
    \cup {Project(r, NoPython, m, NoNode, NoDotNet) :
             r \in RustBackgrounds, m \in JavaManifests}
    \cup {Project(r, NoPython, NoJava, m, NoDotNet) :
             r \in RustBackgrounds, m \in NodeManifests}
    \cup {Project(r, NoPython, NoJava, NoNode, m) :
             r \in RustBackgrounds, m \in DotNetManifests}

\* detect_ecosystems: which manifest files exist in the directory
detected(p, e) ==
    CASE e = "Rust" -> p.cargo_toml \/ exists(p.cargo_lock)
      [] e = "Python" ->
            exists(p.requirements_txt) \/ exists(p.pyproject_toml) \/ exists(p.pipfile_lock)
      [] e = "Java" ->
            exists(p.pom_xml) \/ exists(p.build_gradle) \/ exists(p.build_gradle_kts)
      [] e = "Node" ->
            exists(p.package_json) \/ exists(p.package_lock_json) \/ exists(p.yarn_lock)
      [] e = "DotNet" ->
            exists(p.packages_config) \/ p.paket_dependencies \/ p.project_files # <<>>

RECURSIVE Filter(_, _)
\* the elements of a sequence that are in a set, in their order
Filter(seq, keep) ==
    IF seq = <<>> THEN <<>>
    ELSE (IF Head(seq) \in keep THEN <<Head(seq)>> ELSE <<>>) \o Filter(Tail(seq), keep)

\* detect_ecosystems
detect_ecosystems(p) ==
    Filter(<<"Rust", "Python", "Java", "Node", "DotNet">>,
           {e \in Ecosystem : detected(p, e)})

\* a parse_* function: Err on a source it cannot read or parse, else the
\* Dependency records of its entries; only the parsers of an ecosystem whose
\* manifests can state a license (source "Manifest") keep it
parse(src, ecosystem, source) ==
    IF src.state # "ok" THEN Err
    ELSE Ok([i \in 1..Len(src.entries) |->
               Dependency(ecosystem, src.entries[i].name, src.entries[i].version,
                          IF source = "Unknown" THEN None ELSE src.entries[i].license,
                          source)])

\* java.rs make_dep: the name is "group:artifact", or the artifact alone
java_make_dep(c) ==
    Dependency("Java",
               IF c.group_id = <<>> THEN c.artifact_id
               ELSE c.group_id \o <<":">> \o c.artifact_id,
               c.version, None, "Unknown")

\* parse_pom_xml, parse_build_gradle, parse_gradle_lockfile
parse_java(src) ==
    IF src.state # "ok" THEN Err
    ELSE Ok([i \in 1..Len(src.entries) |-> java_make_dep(src.entries[i])])

\* format!("{}@{}", d.name, d.version)
at_key(d) == d.name \o <<"@">> \o d.version

\* format!("{}:{}", d.name, d.version)
colon_key(d) == d.name \o <<":">> \o d.version

\* d.name.to_lowercase()
lower_key(d) == to_lowercase(d.name)

RECURSIVE push_unseen(_, _, _)
\* for d in parsed { if seen.insert(key) { deps.push(d) } }, on acc = [deps, seen]
push_unseen(acc, parsed, keys) ==
    IF parsed = <<>> THEN acc
    ELSE push_unseen(IF Head(keys) \in acc.seen THEN acc
                     ELSE [deps |-> Append(acc.deps, Head(parsed)),
                           seen |-> acc.seen \cup {Head(keys)}],
                     Tail(parsed), Tail(keys))

\* for d in parsed { seen.insert(key); deps.push(d) }: Pipfile.lock's loop
push_all(acc, parsed, keys) ==
    [deps |-> acc.deps \o parsed,
     seen |-> acc.seen \cup {keys[i] : i \in 1..Len(keys)}]

\* one manifest source of an analyzer: read when it exists, skipped silently
\* when its parser fails
read_source(acc, result, keys) ==
    IF result.kind # "Ok" THEN acc ELSE push_unseen(acc, result.value, keys)

NoDeps == [deps |-> <<>>, seen |-> {}]

\* RustAnalyzer::analyze: Cargo.lock's packages that have a source, the
\* license from the local Cargo cache; a read or parse error is returned
RustAnalyzer_analyze(p) ==
    IF ~exists(p.cargo_lock) THEN Ok(<<>>)
    ELSE IF p.cargo_lock.state = "bad" THEN Err
    ELSE LET package == p.cargo_lock.entries
             kept == Filter(package, {x \in {package[i] : i \in 1..Len(package)} :
                                        x.source # None})
         IN  Ok([i \in 1..Len(kept) |->
                   Dependency("Rust", kept[i].name, kept[i].version,
                              kept[i].license, "Cache")])

\* PythonAnalyzer::analyze: Pipfile.lock, requirements.txt, pyproject.toml
PythonAnalyzer_analyze(p) ==
    LET pipfile == parse(p.pipfile_lock, "Python", "Unknown")
        reqs == parse(p.requirements_txt, "Python", "Unknown")
        pyproject == parse(p.pyproject_toml, "Python", "Unknown")
        keys(r) == [i \in 1..Len(r.value) |-> lower_key(r.value[i])]
        s1 == IF pipfile.kind = "Ok" THEN push_all(NoDeps, pipfile.value, keys(pipfile))
              ELSE NoDeps
        s2 == read_source(s1, reqs, keys(reqs))
        s3 == read_source(s2, pyproject, keys(pyproject))
    IN  Ok(s3.deps)

\* JavaAnalyzer::analyze: pom.xml, build.gradle, build.gradle.kts, gradle.lockfile
JavaAnalyzer_analyze(p) ==
    LET keys(r) == [i \in 1..Len(r.value) |-> colon_key(r.value[i])]
        pom == parse_java(p.pom_xml)
        gradle == parse_java(p.build_gradle)
        kts == parse_java(p.build_gradle_kts)
        lockfile == parse_java(p.gradle_lockfile)
        s1 == read_source(NoDeps, pom, keys(pom))
        s2 == read_source(s1, gradle, keys(gradle))
        s3 == read_source(s2, kts, keys(kts))
        s4 == read_source(s3, lockfile, keys(lockfile))
    IN  Ok(s4.deps)

\* NodeAnalyzer::analyze: package-lock.json, yarn.lock, and package.json only
\* when the two gave nothing
NodeAnalyzer_analyze(p) ==
    LET keys(r) == [i \in 1..Len(r.value) |-> at_key(r.value[i])]
        lock == parse(p.package_lock_json, "Node", "Manifest")
        yarn == parse(p.yarn_lock, "Node", "Manifest")
        pkg == parse(p.package_json, "Node", "Manifest")
        s1 == read_source(NoDeps, lock, keys(lock))
        s2 == read_source(s1, yarn, keys(yarn))
        s3 == IF s2.deps = <<>> THEN read_source(s2, pkg, keys(pkg)) ELSE s2
    IN  Ok(s3.deps)

RECURSIVE read_project_files(_, _)
\* DotNetAnalyzer::analyze's loop over the *.csproj / *.fsproj files in the
\* order read_dir yields them
read_project_files(acc, files) ==
    IF files = <<>> THEN acc
    ELSE LET parsed == parse(Head(files), "DotNet", "Unknown") IN
         read_project_files(
            read_source(acc, parsed,
                        [i \in 1..Len(parsed.value) |-> colon_key(parsed.value[i])]),
            Tail(files))

\* DotNetAnalyzer::analyze: the project files, packages.config, paket.lock
DotNetAnalyzer_analyze(p) ==
    LET keys(r) == [i \in 1..Len(r.value) |-> colon_key(r.value[i])]
        config_ == parse(p.packages_config, "DotNet", "Unknown")
        paket == parse(p.paket_lock, "DotNet", "Unknown")
        s1 == read_project_files(NoDeps, p.project_files)
        s2 == read_source(s1, config_, keys(config_))
        s3 == read_source(s2, paket, keys(paket))
    IN  Ok(s3.deps)

\* the match on the ecosystem in scan_project's loop
analyze(e, p) ==
    CASE e = "Rust" -> RustAnalyzer_analyze(p)
      [] e = "Python" -> PythonAnalyzer_analyze(p)
      [] e = "Java" -> JavaAnalyzer_analyze(p)
      [] e = "Node" -> NodeAnalyzer_analyze(p)
      [] e = "DotNet" -> DotNetAnalyzer_analyze(p)

AggIdle ==
    /\ project = Project(NoRust, NoPython, NoJava, NoNode, NoDotNet)
    /\ excluded = {}
    /\ ecosystems = <<>>
    /\ all_deps = <<>>
    /\ scan_result = None
    /\ apc = "idle"

InitAgg ==
    /\ project \in Projects
    /\ excluded \in {{}, {"Rust"}}
    /\ ecosystems = <<>>
    /\ all_deps = <<>>
    /\ scan_result = None
    /\ apc = "start"

\* scan_project up to its loop: detect_ecosystems without the excluded ones,
\* Ok(empty) at once when none is left
ScanDetect ==
    /\ apc = "start"
    /\ LET found == Filter(detect_ecosystems(project), Ecosystem \ excluded) IN
       /\ ecosystems' = found
       /\ IF found = <<>>
          THEN scan_result' = Some(Ok(<<>>)) /\ apc' = "done"
          ELSE UNCHANGED scan_result /\ apc' = "analyzing"
    /\ UNCHANGED <<project, excluded, all_deps>>
    /\ AggFrame

\* one turn of scan_project's loop on ecosystem e: its analyzer runs; its
\* error is returned by `?`, else its dependencies extend all_deps
Analyze(e) ==
    /\ LET deps == analyze(e, project) IN
       IF deps.kind = "Err"
       THEN /\ scan_result' = Some(Err)
            /\ apc' = "done"
            /\ UNCHANGED <<ecosystems, all_deps>>
       ELSE /\ all_deps' = all_deps \o deps.value
            /\ ecosystems' = Tail(ecosystems)
            /\ UNCHANGED <<scan_result, apc>>
    /\ UNCHANGED <<project, excluded>>
    /\ AggFrame

AnalyzeRust ==
    /\ apc = "analyzing"
    /\ ecosystems # <<>> /\ Head(ecosystems) = "Rust"
    /\ Analyze("Rust")

AnalyzePython ==
    /\ apc = "analyzing"
    /\ ecosystems # <<>> /\ Head(ecosystems) = "Python"
    /\ Analyze("Python")

AnalyzeJava ==
    /\ apc = "analyzing"
    /\ ecosystems # <<>> /\ Head(ecosystems) = "Java"
    /\ Analyze("Java")

AnalyzeNode ==
    /\ apc = "analyzing"
    /\ ecosystems # <<>> /\ Head(ecosystems) = "Node"
    /\ Analyze("Node")

AnalyzeDotNet ==
    /\ apc = "analyzing"
    /\ ecosystems # <<>> /\ Head(ecosystems) = "DotNet"
    /\ Analyze("DotNet")

\* scan_project after its loop (offline): Ok(all_deps)
ScanCollect ==
    /\ apc = "analyzing"
    /\ ecosystems = <<>>
    /\ scan_result' = Some(Ok(all_deps))
    /\ apc' = "done"
    /\ UNCHANGED <<project, excluded, ecosystems, all_deps>>
    /\ AggFrame

-----------------------------------------------------------------------------
(* Registry enrichment: enrich_online (main.rs)                            *)
(*                                                                         *)
(* enrichments holds one record per running call of enrich_online: one in  *)
(* single-project mode, one per sub-project task in workspace mode, where  *)
(* the tasks run concurrently.  A fetch task resolves to what its          *)
(* JoinHandle yields: Ok(Some(license)), Ok(None), Err (network failure or *)
(* timeout) or Panic (a JoinError).                                        *)

\* BATCH_SIZE: 50 in the code, scaled down here
BATCH_SIZE == 2

Pending == [kind |-> "Pending", value |-> <<>>]
NotLaunched == [kind |-> "NotLaunched", value |-> <<>>]

\* the dependency lists enrich_online is run on alone: up to two batches
EnrichLists ==
    LET rust == Dependency("Rust", S_foo, S_1_0, None, "Unknown")
        node == Dependency("Node", S_bar, S_2_0, Some(S_MIT), "Manifest")
        dotnet == Dependency("DotNet", S_foo, S_2_0, None, "Unknown")
        cached == Dependency("Rust", S_bar, S_1_0, Some(S_GPL_3_0), "Cache")
    IN  { <<>>, <<rust>>, <<node, rust>>, <<rust, dotnet>>,
          [i \in 1..(BATCH_SIZE + 1) |->
              IF i = 1 THEN rust ELSE IF i = 2 THEN node ELSE cached] }

\* the dependency lists of sub-projects enriched concurrently
ConcurrentLists ==
    LET rust == Dependency("Rust", S_foo, S_1_0, None, "Unknown")
        dotnet == Dependency("DotNet", S_foo, S_2_0, None, "Unknown")
    IN  { <<rust>>, [i \in 1..BATCH_SIZE |-> IF i = 1 THEN rust ELSE dotnet] }

\* a call of enrich_online at its start
NewEnrichment(deps, client_ok) ==
    [client_ok |-> client_ok, before |-> deps, deps |-> deps, lo |-> 1,
     handles |-> <<>>, results |-> [i \in 1..Len(deps) |-> NotLaunched],
     launched |-> [i \in 1..Len(deps) |-> 0],
     pc |-> "start", ret |-> None]

\* what the fetch task of a dependency can resolve to: the .NET arm is Ok(None)
fetch_outcomes(dep) ==
    IF dep.ecosystem = "DotNet" THEN {Ok(None)}
    ELSE {Ok(Some(S_Apache_2_0)), Ok(None), Err, Panic}

\* a write-back that takes whatever the fetch gave, also nothing
write_back_ClearOnMiss(dep, join_result) ==
    IF join_result.kind = "Ok"
    THEN [dep EXCEPT !.license_raw = join_result.value,
                     !.license_spdx = join_result.value,
                     !.source = "Registry"]
    ELSE dep

\* the body of the write-back loop: if let Ok(Ok(Some(license))) = join_result
write_back(dep, join_result) ==
    IF join_result.kind = "Ok" /\ join_result.value # None
    THEN [dep EXCEPT !.license_raw = Some(join_result.value[1]),
                     !.license_spdx = Some(join_result.value[1]),
                     !.source = "Registry"]
    ELSE dep

\* one batch that holds everything from lo to the end of the list
batch_end_Whole(e) == Len(e.deps)

\* the last index of the batch deps.chunks_mut(BATCH_SIZE) yields from lo on
batch_end(e) ==
    IF e.lo + BATCH_SIZE - 1 < Len(e.deps) THEN e.lo + BATCH_SIZE - 1 ELSE Len(e.deps)

EnrichIdle == enrichments = <<>>

InitEnrich ==
    \/ \E deps \in EnrichLists, ok \in BOOLEAN :
          enrichments = <<NewEnrichment(deps, ok)>>
    \/ \E n \in 2..MaxProjects : \E lists \in [1..n -> ConcurrentLists] :
          enrichments = [p \in 1..n |-> NewEnrichment(lists[p], TRUE)]

\* enrich_online up to its loop: the HTTP client is built, its error returned by `?`
EnrichStart(p) ==
    /\ enrichments[p].pc = "start"
    /\ enrichments' = [enrichments EXCEPT ![p] =
          IF @.client_ok THEN [@ EXCEPT !.pc = "next_batch"]
          ELSE [@ EXCEPT !.pc = "returned", !.ret = Some(Err)]]
    /\ EnrichFrame

\* the loop takes the next batch and spawns one fetch task per dependency of it
EnrichSpawn(p) ==
    /\ enrichments[p].pc = "next_batch"
    /\ enrichments[p].lo <= Len(enrichments[p].deps)
    /\ LET e == enrichments[p]
           hi == batch_end(e)
       IN  enrichments' = [enrichments EXCEPT ![p] =
              [e EXCEPT !.handles = [k \in 1..(hi - e.lo + 1) |-> Pending],
                        !.launched = [i \in 1..Len(e.deps) |->
                                         IF e.lo <= i /\ i <= hi THEN e.launched[i] + 1
                                         ELSE e.launched[i]],
                        !.pc = "joining"]]
    /\ EnrichFrame

\* one fetch task resolves
FetchResolve(p, k) ==
    /\ enrichments[p].pc = "joining"
    /\ k <= Len(enrichments[p].handles)
    /\ enrichments[p].handles[k] = Pending
    /\ \E join_result \in fetch_outcomes(enrichments[p].deps[enrichments[p].lo + k - 1]) :
          enrichments' = [enrichments EXCEPT ![p].handles[k] = join_result]
    /\ EnrichFrame

\* join_all has every result of the batch: the write-back loop over the
\* batch zipped with the results, and on to the next batch
EnrichJoin(p) ==
    /\ enrichments[p].pc = "joining"
    /\ \A k \in 1..Len(enrichments[p].handles) : enrichments[p].handles[k] # Pending
    /\ LET e == enrichments[p]
           hi == batch_end(e)
       IN  enrichments' = [enrichments EXCEPT ![p] =
              [e EXCEPT !.deps = [i \in 1..Len(e.deps) |->
                                     IF e.lo <= i /\ i <= hi
                                     THEN write_back(e.deps[i], e.handles[i - e.lo + 1])
                                     ELSE e.deps[i]],
                        !.results = [i \in 1..Len(e.deps) |->
                                        IF e.lo <= i /\ i <= hi THEN e.handles[i - e.lo + 1]
                                        ELSE e.results[i]],
                        !.handles = <<>>,
                        !.lo = hi + 1,
                        !.pc = "next_batch"]]
    /\ EnrichFrame

\* no batch is left: enrich_online returns Ok(())
EnrichReturn(p) ==
    /\ enrichments[p].pc = "next_batch"
    /\ enrichments[p].lo > Len(enrichments[p].deps)
    /\ enrichments' = [enrichments EXCEPT ![p].pc = "returned",
                                          ![p].ret = Some(Ok(<<>>))]
    /\ EnrichFrame

-----------------------------------------------------------------------------
(* Specifications                                                          *)

\* apply_policy and classify on one license, verdict_or / verdict_and on one pair
InitPolicy == (InitLicense \/ InitOperands) /\ WalkIdle /\ ScanIdle /\ AggIdle /\ EnrichIdle
NextPolicy == ApplyPolicy \/ Classify \/ Combine
SpecPolicy == InitPolicy /\ [][NextPolicy]_vars

\* find_workspace_projects on one tree
InitWalkOnly == InitWalk /\ PolicyIdle /\ ScanIdle /\ AggIdle /\ EnrichIdle
NextWalk == WalkSkip \/ WalkProject \/ WalkDescend \/ WalkReturn \/ WalkFinish
SpecWalk == InitWalkOnly /\ [][NextWalk]_vars

\* the walk is one synchronous call: it keeps running until it returns
SpecWalkFair == SpecWalk /\ WF_vars(NextWalk)

\* one run of the program, in single-project or in workspace mode
InitScanOnly == InitScan /\ PolicyIdle /\ WalkIdle /\ AggIdle /\ EnrichIdle
NextScan ==
    \/ RunSingleScan \/ RunSingleClassify \/ RunSingleRender
    \/ RunWorkspaceSpawn
    \/ \E i \in 1..MaxProjects : i <= Len(tasks) /\ TaskScan(i)
    \/ \E i \in 1..MaxProjects : i <= Len(tasks) /\ TaskFinish(i)
    \/ RunWorkspaceJoin \/ RunWorkspaceRender
    \/ MainExit
SpecScan == InitScanOnly /\ [][NextScan]_vars

\* scan_project on one project directory, offline
InitAggOnly == InitAgg /\ PolicyIdle /\ WalkIdle /\ ScanIdle /\ EnrichIdle
NextAgg ==
    \/ ScanDetect
    \/ AnalyzeRust \/ AnalyzePython \/ AnalyzeJava \/ AnalyzeNode \/ AnalyzeDotNet
    \/ ScanCollect
SpecAgg == InitAggOnly /\ [][NextAgg]_vars

\* enrich_online: one call alone, or the calls of concurrent sub-project tasks
InitEnrichOnly == InitEnrich /\ PolicyIdle /\ WalkIdle /\ ScanIdle /\ AggIdle
NextEnrich ==
    \/ \E p \in 1..MaxProjects : p <= Len(enrichments) /\ EnrichStart(p)
    \/ \E p \in 1..MaxProjects : p <= Len(enrichments) /\ EnrichSpawn(p)
    \/ \E p \in 1..MaxProjects, k \in 1..BATCH_SIZE :
          p <= Len(enrichments) /\ FetchResolve(p, k)
    \/ \E p \in 1..MaxProjects : p <= Len(enrichments) /\ EnrichJoin(p)
    \/ \E p \in 1..MaxProjects : p <= Len(enrichments) /\ EnrichReturn(p)
SpecEnrich == InitEnrichOnly /\ [][NextEnrich]_vars

-----------------------------------------------------------------------------
(* Claims about the policy engine                                          *)

\* v(X) of the claims: X's verdict in the rule table, else the default verdict
TableVerdict(cfg, X) ==
    LET a == IF X \in DOMAIN cfg.licenses THEN cfg.licenses[X] ELSE cfg.default
    IN  IF a = "pass" THEN "Pass" ELSE IF a = "warn" THEN "Warn" ELSE "Error"

IsKey(cfg, s) == s \in DOMAIN cfg.licenses

OrAndStrings == {OrAndExpr(A, B, C) : A \in Ids, B \in Ids, C \in Ids}
ParenOrAndStrings == {ParenOrAndExpr(A, B, C) : A \in Ids, B \in Ids, C \in Ids}
WithStrings == {WithExpr(X, E) : X \in Ids, E \in ExceptionIds}
SlashStrings == {SlashExpr(A, B) : A \in PairIds, B \in PairIds}

\* the license of the state is one of the strings of S
LicenseIn(S) == license_spdx # None /\ license_spdx[1] \in S

Applied == ppc \in {"applied", "done"} /\ verdict # None

\* C1: AND binds tighter than OR.  For every config and identifiers A, B, C with
\* "A OR B AND C" not itself a key of the rule table, apply_policy returns
\* verdict_or(v(A), verdict_and(v(B), v(C))); under the built-in default config
\* "MIT OR GPL-3.0 AND BSD-3-Clause" is Pass.
C1_AndBindsTighter ==
    /\ LicenseIn(OrAndStrings) => \A A \in Ids, B \in Ids, C \in Ids :
         ( /\ Applied
           /\ license_spdx = Some(OrAndExpr(A, B, C))
           /\ ~IsKey(config, OrAndExpr(A, B, C)) )
         => verdict = Some(verdict_or(TableVerdict(config, A),
                                      verdict_and(TableVerdict(config, B),
                                                  TableVerdict(config, C))))
    /\ ( /\ Applied
         /\ config = DefaultConfig
         /\ license_spdx = Some(OrAndExpr(S_MIT, S_GPL_3_0, S_BSD_3_Clause)) )
       => verdict = Some("Pass")

\* "MIT OR GPL-3.0 AND GPL-3.0" under the default config: Pass, where grouping
\* the OR first would give Error
C1_Witness ==
    /\ Applied
    /\ config = DefaultConfig
    /\ license_spdx = Some(OrAndExpr(S_MIT, S_GPL_3_0, S_GPL_3_0))
    /\ verdict = Some("Pass")

\* C2 as stated: for every config and identifiers A, B, C, "(A OR B) AND C"
\* evaluates to verdict_and(verdict_or(v(A), v(B)), v(C)).
C2_AsStated ==
    LicenseIn(ParenOrAndStrings) => \A A \in Ids, B \in Ids, C \in Ids :
       (Applied /\ license_spdx = Some(ParenOrAndExpr(A, B, C)))
       => verdict = Some(verdict_and(verdict_or(TableVerdict(config, A),
                                                TableVerdict(config, B)),
                                     TableVerdict(config, C)))

\* C2 amended: parentheses override precedence.  For every config and
\* identifiers A, B, C with "(A OR B) AND C" not itself a key of the rule
\* table, apply_policy returns verdict_and(verdict_or(v(A), v(B)), v(C)); under
\* the built-in default config "(MIT OR GPL-3.0) AND GPL-3.0" is Error and
\* "(MIT OR GPL-3.0) AND BSD-3-Clause" is Pass.
C2_ParensOverride ==
    /\ LicenseIn(ParenOrAndStrings) => \A A \in Ids, B \in Ids, C \in Ids :
         ( /\ Applied
           /\ license_spdx = Some(ParenOrAndExpr(A, B, C))
           /\ ~IsKey(config, ParenOrAndExpr(A, B, C)) )
         => verdict = Some(verdict_and(verdict_or(TableVerdict(config, A),
                                                  TableVerdict(config, B)),
                                       TableVerdict(config, C)))
    /\ (Applied /\ config = DefaultConfig) =>
         /\ license_spdx = Some(ParenOrAndExpr(S_MIT, S_GPL_3_0, S_GPL_3_0))
              => verdict = Some("Error")
         /\ license_spdx = Some(ParenOrAndExpr(S_MIT, S_GPL_3_0, S_BSD_3_Clause))
              => verdict = Some("Pass")

\* "(MIT OR GPL-3.0) AND GPL-3.0" under the default config is Error
C2_Witness ==
    /\ Applied
    /\ config = DefaultConfig
    /\ license_spdx = Some(ParenOrAndExpr(S_MIT, S_GPL_3_0, S_GPL_3_0))
    /\ verdict = Some("Error")

\* C3 as stated: for every config, base X and exception E, "X WITH E" has the
\* verdict of "X".
C3_AsStated ==
    LicenseIn(WithStrings) => \A X \in Ids, E \in ExceptionIds :
       (Applied /\ license_spdx = Some(WithExpr(X, E)))
       => verdict = Some(apply_policy(config, Some(X)))

\* C3 amended: a WITH clause does not change the verdict.  For every config,
\* base X and exception E with "X WITH E" not itself a key of the rule table,
\* "X WITH E" has the verdict of "X", which is v(X) whatever the table says
\* about E.
C3_WithIgnored ==
    LicenseIn(WithStrings) => \A X \in Ids, E \in ExceptionIds :
       ( /\ Applied
         /\ license_spdx = Some(WithExpr(X, E))
         /\ ~IsKey(config, WithExpr(X, E)) )
       => /\ verdict = Some(apply_policy(config, Some(X)))
          /\ verdict = Some(TableVerdict(config, X))

\* "GPL-3.0 WITH Classpath-exception-2.0" under a table that passes GPL-3.0
\* and names the exception identifier as an error
C3_Witness ==
    /\ Applied
    /\ config = [default |-> "warn", licenses |-> CustomLicenses]
    /\ license_spdx = Some(WithExpr(S_GPL_3_0, S_Classpath_exception_2_0))
    /\ verdict = Some("Pass")

\* C4 as stated: for every config and identifiers A, B, "A/B" has the verdict
\* and the risk of "A OR B".
C4_AsStated ==
    LicenseIn(SlashStrings) => \A A \in PairIds, B \in PairIds :
       /\ (Applied /\ license_spdx = Some(SlashExpr(A, B)))
            => verdict = Some(apply_policy(config, Some(OrExpr(A, B))))
       /\ (ppc = "done" /\ license_spdx = Some(SlashExpr(A, B)))
            => risk = Some(classify(OrExpr(A, B)))

\* C4 amended: a slash-separated list behaves as OR.  For every config and
\* identifiers A, B with neither "A/B" nor "A OR B" itself a key of the rule
\* table, apply_policy gives "A/B" the verdict of "A OR B"; classify gives
\* "A/B" the risk of "A OR B" always, and "MIT/Apache-2.0" is Permissive.
C4_SlashIsOr ==
    LicenseIn(SlashStrings) => \A A \in PairIds, B \in PairIds :
       /\ ( /\ Applied
            /\ license_spdx = Some(SlashExpr(A, B))
            /\ ~IsKey(config, SlashExpr(A, B))
            /\ ~IsKey(config, OrExpr(A, B)) )
            => /\ verdict = Some(apply_policy(config, Some(OrExpr(A, B))))
               /\ verdict = Some(verdict_or(TableVerdict(config, A),
                                            TableVerdict(config, B)))
       /\ (ppc = "done" /\ license_spdx = Some(SlashExpr(A, B)))
            => /\ risk = Some(classify(OrExpr(A, B)))
               /\ (A = S_MIT /\ B = S_Apache_2_0) => risk = Some("Permissive")

\* "GPL-3.0/LGPL-2.1" under the default config: Warn and WeakCopyleft
C4_Witness ==
    /\ ppc = "done"
    /\ config = DefaultConfig
    /\ license_spdx = Some(SlashExpr(S_GPL_3_0, S_LGPL_2_1))
    /\ verdict = Some("Warn")
    /\ risk = Some("WeakCopyleft")

\* the tokens the expression parser was given for the license of the state
LicenseTokens ==
    tokenize_spdx(replace(unwrap_or_unknown(license_spdx), "/", S_SP_OR_SP))

RECURSIVE UnmatchedRParenFrom(_, _, _)
\* the index of the first ')' at or after i that closes no '(' (depth open
\* parentheses before i), 0 when there is none
UnmatchedRParenFrom(tokens, i, depth) ==
    IF i > Len(tokens) THEN 0
    ELSE IF tokens[i] = TokLParen THEN UnmatchedRParenFrom(tokens, i + 1, depth + 1)
    ELSE IF tokens[i] = TokRParen
         THEN IF depth = 0 THEN i
              ELSE UnmatchedRParenFrom(tokens, i + 1, depth - 1)
    ELSE UnmatchedRParenFrom(tokens, i + 1, depth)

\* the tokens before the first unmatched ')', all of them when there is none
BeforeUnmatchedRParen(tokens) ==
    LET i == UnmatchedRParenFrom(tokens, 1, 0)
    IN  IF i = 0 THEN tokens ELSE SubSeq(tokens, 1, i - 1)

\* an operand is expected at i: at the start and after AND, OR and '('
OperandExpectedAt(tokens, i) ==
    i = 1 \/ tokens[i - 1] \in {TokAnd, TokOr, TokLParen}

\* an operand is missing at i: one is expected and the input ends or goes on
\* with something that starts no operand
OperandMissingAt(tokens, i) ==
    /\ OperandExpectedAt(tokens, i)
    /\ i > Len(tokens) \/ tokens[i].k \notin {"Id", "LParen"}

RECURSIVE FillFrom(_, _)
\* the tokens from i on, with the identifier CUSTOM-LICENSE (in no rule table,
\* so worth the default verdict) put wherever an operand is missing
FillFrom(tokens, i) ==
    IF i > Len(tokens) + 1 THEN <<>>
    ELSE (IF OperandMissingAt(tokens, i) THEN <<TokId(S_CUSTOM_LICENSE)>> ELSE <<>>)
         \o (IF i <= Len(tokens) THEN <<tokens[i]>> ELSE <<>>)
         \o FillFrom(tokens, i + 1)

FillMissingOperands(tokens) == FillFrom(tokens, 1)

\* the expression parser ran: the license was no key of the rule table
ParserRan == Applied /\ parser # None

\* the parser returned a verdict without reaching unreachable!(), with its
\* position inside the token vector or just past its end
C5_Returns ==
    ParserRan =>
       /\ verdict[1] \in PolicyVerdict
       /\ ~parser[1].panic
       /\ parser[1].pos \in 1..(parser[1].ntokens + 1)

\* an unmatched ')' ends the expression: the verdict is that of the tokens before it
C5_RParenEnds ==
    ParserRan =>
       verdict = Some(parse_or(config, BeforeUnmatchedRParen(LicenseTokens), 1).v)

\* a missing operand is worth the default verdict: the verdict is that of the
\* tokens with an identifier of no rule table in the place of each missing operand
C5_MissingIsDefault ==
    (ParserRan /\ \A i \in 1..Len(LicenseTokens) : LicenseTokens[i] # TokWith) =>
       verdict = Some(parse_or(config,
                        FillMissingOperands(BeforeUnmatchedRParen(LicenseTokens)), 1).v)

\* C5 as stated: for every token sequence the evaluation returns a verdict
\* without panicking, every missing operand is evaluated as the default
\* verdict, and an unmatched ')' ends the expression.
C5_AsStated == C5_Returns /\ C5_MissingIsDefault /\ C5_RParenEnds

\* C6: a license that is a single identifier gets the verdict the rule table
\* configures for exactly that key (case-sensitive), else the default verdict;
\* an absent license is evaluated as the identifier "unknown".
C6_SingleIdentifier ==
    /\ (Applied /\ LicenseIn(SingleIds)) =>
          verdict = Some(TableVerdict(config, license_spdx[1]))
    /\ (Applied /\ license_spdx = None) =>
          /\ verdict = Some(TableVerdict(config, S_unknown))
          /\ verdict = Some(apply_policy(config, Some(S_unknown)))

\* "mit" under the default config, whose table has the key "MIT": the default, Warn
C6_Witness ==
    /\ Applied
    /\ config = DefaultConfig
    /\ license_spdx = Some(S_mit)
    /\ verdict = Some("Warn")

\* the order Pass < Warn < Error
Severity(v) == CASE v = "Pass" -> 0 [] v = "Warn" -> 1 [] v = "Error" -> 2
LeastSevere(a, b) == IF Severity(a) <= Severity(b) THEN a ELSE b
MostSevere(a, b) == IF Severity(a) >= Severity(b) THEN a ELSE b

\* C7: verdict_or returns the least severe and verdict_and the most severe of
\* its arguments in the order Pass < Warn < Error, both are commutative, and
\* verdict_or(Pass, Error) = Pass, verdict_and(Pass, Error) = Error.
C7_VerdictJoins ==
    (ppc = "done" /\ vres # None) =>
       /\ vres[1].or = LeastSevere(va, vb)
       /\ vres[1].and = MostSevere(va, vb)
       /\ vres[1].or = verdict_or(vb, va)
       /\ vres[1].and = verdict_and(vb, va)
       /\ (va = "Pass" /\ vb = "Error") =>
             (vres[1].or = "Pass" /\ vres[1].and = "Error")

\* verdict_or(Pass, Error) = Pass and verdict_and(Pass, Error) = Error were computed
C7_Witness ==
    /\ ppc = "done"
    /\ va = "Pass"
    /\ vb = "Error"
    /\ vres = Some([or |-> "Pass", and |-> "Error"])

-----------------------------------------------------------------------------
(* Claims about the workspace walker                                       *)

\* the real directory a reported path leads to
RealDir(path) == Resolve(fs, <<>>, path)[1]

\* q lies inside p: p is a proper prefix of q
IsInside(q, p) == Len(p) < Len(q) /\ SubSeq(q, 1, Len(p)) = p

\* C9 as stated: no reported directory lies inside another reported project:
\* for every two paths p, q of the result, q resolved is no descendant of p
\* resolved, also when q is reached through a symlink outside p.
C9_AsStated ==
    wpc = "done" =>
       \A i, j \in 1..Len(out) :
          i # j => ~IsInside(RealDir(out[j]), RealDir(out[i]))

\* the directories that hold a manifest or a .csproj / .fsproj file
ProjectDirs ==
    {d \in Dirs : \E f \in fs.files[d] :
                     f \in MANIFEST_FILES \/ f.ext \in {"csproj", "fsproj"}}

\* C10: the walk terminates on every tree, also one whose symlinks form a
\* cycle: each canonical directory is entered at most once, the walk reaches
\* its end, and on a tree without manifests the result is the empty list.
C10_WalkTerminates ==
    /\ [](\A d \in Dirs : entered[d] <= 1)
    /\ []((wpc = "done" /\ ProjectDirs = {}) => out = <<>>)
    /\ <>(wpc = "done")

\* the walk ended on a tree without manifests in which a/n/l points back to
\* the root, after entering a/n and so meeting the link
C10_Witness ==
    /\ wpc = "done"
    /\ fs.links[<<"a", "n">>] = Some(<<>>)
    /\ ProjectDirs = {}
    /\ entered[<<"a", "n">>] = 1
    /\ entered[<<>>] = 1
    /\ out = <<>>

-----------------------------------------------------------------------------
(* Claims about the scan driver                                            *)

\* some dependency the run scanned carries the verdict v: a dependency of
\* all_deps in single-project mode, of any sub-project task in workspace mode
SomeScannedVerdict(v) ==
    IF recursive
    THEN \E i \in 1..Len(tasks) :
            /\ tasks[i].result.kind = "Ok"
            /\ \E k \in 1..Len(tasks[i].result.value) :
                  tasks[i].result.value[k].verdict = v
    ELSE \E i \in 1..Len(scans) : \E k \in 1..Len(scans[i].deps) :
            scans[i].deps[k].verdict = v

\* the scan completed: run_single / run_workspace returned Ok and main ended
ScanCompleted == mpc = "exited" /\ outcome = "completed"

\* C8: when a scan completes, the exit signal is true and the exit code is 1
\* exactly when some scanned dependency, over all sub-projects in workspace
\* mode, has the verdict Error; otherwise the exit code is 0, whatever Warn
\* and Pass verdicts there are.
C8_ExitSignal ==
    ScanCompleted =>
        /\ returned[1].value = SomeScannedVerdict("Error")
        /\ exit_code = Some(IF SomeScannedVerdict("Error") THEN 1 ELSE 0)

\* a workspace of two sub-projects, the first without an Error verdict, the
\* second with one, and a Warn verdict somewhere: exit code 1
C8_Witness ==
    /\ ScanCompleted
    /\ recursive
    /\ Len(tasks) = 2
    /\ tasks[1].result.kind = "Ok"
    /\ tasks[1].result.value # <<>>
    /\ \A k \in 1..Len(tasks[1].result.value) :
          tasks[1].result.value[k].verdict # "Error"
    /\ SomeScannedVerdict("Error")
    /\ SomeScannedVerdict("Warn")
    /\ exit_code = Some(1)

\* a completed single-project scan with a Warn verdict and no Error: exit code 0
C8_WarnOnly ==
    /\ ScanCompleted
    /\ ~recursive
    /\ SomeScannedVerdict("Warn")
    /\ ~SomeScannedVerdict("Error")
    /\ exit_code = Some(0)

-----------------------------------------------------------------------------
(* Claims about the result of find_workspace_projects                      *)

\* the paths of a set in ascending order
Ascending(S) ==
    CHOOSE e \in [1..Cardinality(S) -> S] :
       \A i, j \in 1..Cardinality(S) : i < j => path_less(e[i], e[j])

\* a reported path holds a manifest or a .csproj / .fsproj file
HoldsManifest(tree, path) ==
    /\ Resolve(tree, <<>>, path) # None
    /\ \E f \in tree.files[Resolve(tree, <<>>, path)[1]] :
          f \in MANIFEST_FILES \/ f.ext \in {"csproj", "fsproj"}

RECURSIVE WalkInOrder(_, _, _, _)
\* the set of paths the walk reports when every directory is read in
\* ascending order: todo the paths still to walk, seen the real directories
\* entered, acc the paths reported
WalkInOrder(tree, todo, seen, acc) ==
    IF todo = <<>> THEN acc
    ELSE LET dir == Head(todo)
             real == Resolve(tree, <<>>, dir)
         IN  IF real = None \/ real[1] \in seen
             THEN WalkInOrder(tree, Tail(todo), seen, acc)
             ELSE IF HoldsManifest(tree, dir)
             THEN WalkInOrder(tree, Tail(todo), seen \cup {real[1]}, acc \cup {dir})
             ELSE WalkInOrder(tree,
                     Ascending({Append(dir, n) : n \in dir_entries(tree, dir) \ SKIP_DIRS})
                        \o Tail(todo),
                     seen \cup {real[1]}, acc)

\* C11: the list find_workspace_projects returns is sorted ascending by path,
\* holds no path twice, and is the same list whatever order the file system
\* enumerates the entries of each directory in: it is the list the tree alone
\* determines.
C11_SortedDeterministic ==
    wpc = "done" =>
       /\ \A i \in 1..(Len(out) - 1) : path_less(out[i], out[i + 1])
       /\ \A i, j \in 1..Len(out) :
             i # j => out[i] # out[j] /\ RealDir(out[i]) # RealDir(out[j])
       /\ out = Ascending(WalkInOrder(fs, << <<>> >>, {}, {}))

\* the root holds a and the symlink l to a/n, which the file system can yield
\* in either order; a/n and z are projects: the result is a/n, z
C11_Witness ==
    /\ wpc = "done"
    /\ fs.links[<<>>] = Some(<<"a", "n">>)
    /\ out = << <<"a", "n">>, <<"z">> >>

\* C12: every path find_workspace_projects returns is a directory that holds
\* a known manifest file or a .csproj / .fsproj file directly inside it; a
\* tree without any such file yields the empty list.
C12_OnlyProjects ==
    /\ \A i \in 1..Len(out) : HoldsManifest(fs, out[i])
    /\ (\A d \in Dirs : ~HoldsManifest(fs, d)) => out = <<>>

\* a holds app.csproj and is the one directory reported
C12_Witness ==
    /\ wpc = "done"
    /\ fs.files[<<"a">>] = {File("app", "csproj")}
    /\ out = << <<"a">> >>

-----------------------------------------------------------------------------
(* Claims about the dependency aggregator                                  *)

\* scan_project returned Ok
ScanOk == apc = "done" /\ scan_result # None /\ scan_result[1].kind = "Ok"

\* the dedup key the claims speak of: (name, version), for Python the
\* case-folded name
DedupKey(d) ==
    IF d.ecosystem = "Python" THEN <<to_lowercase(d.name)>> ELSE <<d.name, d.version>>

\* C13 as stated: the aggregated list of a project holds no two records with
\* the same ecosystem and the same (name, version) key, for Python the same
\* case-folded name, whatever duplicates the manifest sources contain.
C13_AsStated ==
    ScanOk =>
       \A i, j \in 1..Len(scan_result[1].value) :
          LET a == scan_result[1].value[i]
              b == scan_result[1].value[j]
          IN  (i # j /\ a.ecosystem = b.ecosystem) => DedupKey(a) # DedupKey(b)

\* the (name, version) pairs the readable manifest sources of an ecosystem hold
Yielded(e) ==
    LET pairs(src) == {<<src.entries[i].name, src.entries[i].version>> :
                          i \in 1..Len(src.entries)}
        coords(src) == {<<java_make_dep(src.entries[i]).name, src.entries[i].version>> :
                           i \in 1..Len(src.entries)}
    IN  CASE e = "Rust" ->
               {<<x.name, x.version>> :
                   x \in {y \in {project.cargo_lock.entries[i] :
                                    i \in 1..Len(project.cargo_lock.entries)} :
                            y.source # None}}
          [] e = "Java" ->
               coords(project.pom_xml) \cup coords(project.build_gradle)
               \cup coords(project.build_gradle_kts) \cup coords(project.gradle_lockfile)
          [] e = "Node" ->
               pairs(project.package_lock_json) \cup pairs(project.yarn_lock)
               \cup pairs(project.package_json)
          [] e = "DotNet" ->
               UNION {pairs(project.project_files[i]) :
                         i \in 1..Len(project.project_files)}
               \cup pairs(project.packages_config) \cup pairs(project.paket_lock)
          [] OTHER -> {}

\* the ecosystems scan_project ran the analyzer of
Analyzed == {e \in Ecosystem \ excluded : detected(project, e)}

\* C14 as stated: for every ecosystem but Python, every (name, version) that
\* any manifest source of the ecosystem in the project directory yields is
\* in the aggregated list.
C14_AsStated ==
    ScanOk =>
       \A e \in Analyzed \ {"Python"} : \A pair \in Yielded(e) :
          \E i \in 1..Len(scan_result[1].value) :
             /\ scan_result[1].value[i].ecosystem = e
             /\ scan_result[1].value[i].name = pair[1]
             /\ scan_result[1].value[i].version = pair[2]

\* the records of one ecosystem in a list, in their order
OfEcosystem(deps, e) ==
    Filter(deps, {d \in {deps[i] : i \in 1..Len(deps)} : d.ecosystem = e})

\* C15 as stated: when the analyzer of one ecosystem fails, scan_project
\* still returns Ok, that ecosystem contributes no dependency and every
\* other detected ecosystem contributes what its analyzer returns.
C15_AsStated ==
    apc = "done" =>
       /\ scan_result[1].kind = "Ok"
       /\ \A e \in Analyzed :
             OfEcosystem(scan_result[1].value, e) =
                IF analyze(e, project).kind = "Ok" THEN analyze(e, project).value
                ELSE <<>>

\* the lockfile of an ecosystem, its most precisely pinned source
Lockfile(e) ==
    CASE e = "Python" -> project.pipfile_lock
      [] e = "Java" -> project.gradle_lockfile
      [] e = "Node" -> project.package_lock_json
      [] e = "DotNet" -> project.paket_lock

\* the name under which an entry of a manifest source is recorded
RecordedName(e, entry) == IF e = "Java" THEN java_make_dep(entry).name ELSE entry.name

\* C27 as stated: the lockfile of an ecosystem is read before its looser
\* manifests, so when it is readable and not empty, the records of the
\* ecosystem start with the record of the lockfile's first entry.
C27_AsStated ==
    ScanOk =>
       \A e \in Analyzed \ {"Rust"} :
          (Lockfile(e).state = "ok" /\ Lockfile(e).entries # <<>>) =>
             LET first == OfEcosystem(scan_result[1].value, e)[1]
                 entry == Lockfile(e).entries[1]
             IN  first.name = RecordedName(e, entry) /\ first.version = entry.version

-----------------------------------------------------------------------------
(* Claims about registry enrichment                                        *)

\* the fields of a record that enrichment may write
LicenseFields(d) == <<d.license_raw, d.license_spdx, d.source>>

\* the fields of a record that enrichment leaves alone
OtherFields(d) == <<d.name, d.version, d.ecosystem, d.risk, d.verdict>>

\* C16: enrichment is a per-slot best-effort update.  No fetch is launched
\* twice for a record.  When enrich_online has returned after its loop, it
\* returned Ok whatever the fetches did, the list has its length and order,
\* every record its name, version and ecosystem, and the record at i has
\* the fetched license with source Registry when the fetch launched for i
\* gave Ok(Some(license)), and its license fields as before when the fetch
\* gave Ok(None), failed, timed out or panicked.
C16_PerSlotUpdate ==
    \A p \in 1..Len(enrichments) :
       LET e == enrichments[p] IN
       /\ \A i \in 1..Len(e.deps) : e.launched[i] <= 1
       /\ (e.pc = "returned" /\ e.client_ok) =>
             /\ e.ret = Some(Ok(<<>>))
             /\ Len(e.deps) = Len(e.before)
             /\ \A i \in 1..Len(e.deps) :
                   /\ e.launched[i] = 1
                   /\ OtherFields(e.deps[i]) = OtherFields(e.before[i])
                   /\ IF e.results[i].kind = "Ok" /\ e.results[i].value # <<>>
                      THEN LicenseFields(e.deps[i]) =
                              <<e.results[i].value, e.results[i].value, "Registry">>
                      ELSE LicenseFields(e.deps[i]) = LicenseFields(e.before[i])

\* a list of two batches: the first record got a license from the registry,
\* the fetch of the second panicked and the fetch of the third found nothing,
\* and both keep the license they had
C16_Witness ==
    /\ Len(enrichments) = 1
    /\ enrichments[1].pc = "returned"
    /\ Len(enrichments[1].deps) = BATCH_SIZE + 1
    /\ enrichments[1].results[1] = Ok(Some(S_Apache_2_0))
    /\ enrichments[1].deps[1].source = "Registry"
    /\ enrichments[1].results[2] = Panic
    /\ enrichments[1].deps[2].license_raw = Some(S_MIT)
    /\ enrichments[1].results[BATCH_SIZE + 1] = Ok(None)
    /\ enrichments[1].deps[BATCH_SIZE + 1].license_spdx = Some(S_GPL_3_0)

\* C25 as stated: a record that carries a license before enrichment has no
\* fetch launched for it and keeps its license_raw, license_spdx and source.
C25_AsStated ==
    \A p \in 1..Len(enrichments) :
       LET e == enrichments[p] IN
       \A i \in 1..Len(e.deps) :
          e.before[i].license_raw # None =>
             /\ e.launched[i] = 0
             /\ LicenseFields(e.deps[i]) = LicenseFields(e.before[i])

\* the batch a record belongs to: chunks_mut(BATCH_SIZE) counts from 0
BatchOf(i) == (i - 1) \div BATCH_SIZE

\* a record of call e is mutated in the step
Mutated(p, i) == enrichments'[p].deps[i] # enrichments[p].deps[i]

\* C26: batches are strictly sequential and writes follow the join.  When a
\* fetch has been launched for a record of a batch, every fetch of every
\* earlier batch has resolved and its result has been written back; and a
\* step that mutates a record starts with no fetch of the call pending and
\* mutates records of the batch just joined only.
C26_BatchesSequential ==
    /\ [](\A p \in 1..Len(enrichments) :
            LET e == enrichments[p] IN
            \A i, j \in 1..Len(e.deps) :
               (e.launched[i] > 0 /\ BatchOf(j) < BatchOf(i)) =>
                  /\ e.launched[j] > 0
                  /\ e.results[j] \notin {NotLaunched, Pending})
    /\ [][\A p \in 1..Len(enrichments) : \A i \in 1..Len(enrichments[p].deps) :
             Mutated(p, i) =>
                /\ \A k \in 1..Len(enrichments[p].handles) :
                      enrichments[p].handles[k] # Pending
                /\ enrichments[p].handles # <<>>
                /\ BatchOf(i) = BatchOf(enrichments[p].lo)]_vars

\* a call whose second batch is in flight after the first was written back:
\* the first record carries the license fetched for it
C26_Witness ==
    /\ Len(enrichments) = 1
    /\ enrichments[1].pc = "joining"
    /\ enrichments[1].lo = BATCH_SIZE + 1
    /\ enrichments[1].handles = <<Pending>>
    /\ enrichments[1].deps[1].source = "Registry"
    /\ enrichments[1].results[2] = Err

\* the fetch tasks in flight: spawned and not yet resolved, over all calls
InFlight ==
    {<<p, k>> \in (1..MaxProjects) \X (1..BATCH_SIZE) :
        /\ p <= Len(enrichments)
        /\ k <= Len(enrichments[p].handles)
        /\ enrichments[p].handles[k] = Pending}

\* C17 as stated: at every moment the number of fetch tasks in flight is at
\* most BATCH_SIZE, in single-project mode and in workspace mode.
C17_AsStated == Cardinality(InFlight) <= BATCH_SIZE

-----------------------------------------------------------------------------
(* Claims about the output of workspace mode                               *)

\* the projects of the lines of one kind, in the order they were printed
RECURSIVE ProjectsOf(_, _)
ProjectsOf(lines, kind) ==
    IF lines = <<>> THEN <<>>
    ELSE (IF Head(lines).kind = kind THEN <<Head(lines).project>> ELSE <<>>)
         \o ProjectsOf(Tail(lines), kind)

\* a sequence of project indices in discovery order, none twice
InDiscoveryOrder(s) == \A a, b \in 1..Len(s) : a < b => s[a] < s[b]

\* C18: in workspace mode no per-project line (dependency count, scan
\* summary, report section) is printed while a sub-project task has not
\* finished, and the lines of each kind name the projects in discovery
\* order, whatever the order the tasks finished in.
C18_JoinThenPrint ==
    recursive =>
       /\ printed # <<>> => \A i \in 1..Len(tasks) : tasks[i].pc = "done"
       /\ printed # <<>> => Len(completed) = Len(world)
       /\ \A kind \in {"count", "summary", "row"} :
             InDiscoveryOrder(ProjectsOf(printed, kind))

\* two sub-projects, the second finished first: summaries and report
\* sections are printed after both, the first project's before the second's
C18_Witness ==
    /\ recursive
    /\ completed = <<2, 1>>
    /\ printed = <<Line("summary", 1), Line("count", 1),
                   Line("summary", 2), Line("count", 2),
                   Line("row", 1), Line("row", 2)>>

-----------------------------------------------------------------------------
(* Claims about a failing sub-project task                                 *)

\* the sub-project tasks that ended with an Err or a panic
FailedTasks == {i \in 1..Len(tasks) : tasks[i].pc = "done" /\ tasks[i].result.kind # "Ok"}

\* the sub-project tasks that returned a ProjectScan with dependencies
ScannedTasks ==
    {i \in 1..Len(tasks) :
        tasks[i].pc = "done" /\ tasks[i].result.kind = "Ok" /\ tasks[i].result.value # <<>>}

\* C19 as stated: when the process has ended in workspace mode and a
\* sub-project task failed, the results of its siblings are kept (they are
\* among the projects handed to the report) and counted: run_workspace
\* returned a signal, true when a sibling has a verdict Error.
C19_AsStated ==
    (recursive /\ mpc = "exited" /\ FailedTasks # {}) =>
       \A i \in ScannedTasks :
          /\ \E k \in 1..Len(scans) :
                scans[k].index = i /\ scans[k].deps = tasks[i].result.value
          /\ returned # None
          /\ returned[1].kind = "Ok"
          /\ any_error(tasks[i].result.value) => returned[1].value

-----------------------------------------------------------------------------
(* Claims about what is handed to the renderers                            *)

\* the license of a record as the claim words it
LicenseAfterEnrichment(d) ==
    IF d.license_spdx # None THEN d.license_spdx[1]
    ELSE IF d.license_raw # None THEN d.license_raw[1]
    ELSE <<"u", "n", "k", "n", "o", "w", "n">>

\* the records of project p are those scan_project returned for it, each
\* with the risk and the verdict of its license under the project's config
ClassifiedFrom(p) ==
    LET scanned == world[p.index].deps
        cfg == world[p.index].config[1]
    IN  /\ Len(p.deps) = Len(scanned)
        /\ \A j \in 1..Len(p.deps) :
              /\ p.deps[j].license_raw = scanned[j].license_raw
              /\ p.deps[j].license_spdx = scanned[j].license_spdx
              /\ p.deps[j].risk = classify(LicenseAfterEnrichment(p.deps[j]))
              /\ p.deps[j].verdict =
                    apply_policy(cfg, Some(LicenseAfterEnrichment(p.deps[j])))

\* main is about to render, or has rendered
HandedToRenderer == mpc \in {"classified", "joined"} \/ (mpc \in {"returned", "exited"} /\ scans # <<>>)

\* a step writes risk and verdict of a record list only as the one step
\* from "scanned" that classifies it, and nothing changes a list after that
WrittenOnce ==
    /\ \A i \in 1..Len(tasks) :
          /\ tasks[i].pc = "done" => tasks'[i] = tasks[i]
          /\ (tasks[i].pc = "scanned" /\ tasks'[i] # tasks[i]) => tasks'[i].pc = "done"
    /\ (mpc = "scanned" /\ scans' # scans) => mpc' = "classified"
    /\ mpc \in {"classified", "joined", "returned", "exited"} => scans' = scans

\* C20: every record handed to a renderer has risk = classify(L) and
\* verdict = apply_policy(config, L), L its license as scan_project (and with
\* it enrichment) left it and config the config of its own project; risk
\* and verdict are written in one step after scan_project has returned and
\* no step changes a record afterwards.
C20_ClassifiedOnce ==
    /\ [](HandedToRenderer => \A k \in 1..Len(scans) : ClassifiedFrom(scans[k]))
    /\ [][WrittenOnce]_vars

\* a workspace about to be rendered: two sub-projects with the same list of
\* dependencies, one under the built-in default config and one under a
\* stricter config of its own, and with different verdicts for it
C20_Witness ==
    /\ mpc = "joined"
    /\ Len(scans) = 2
    /\ world[1].deps = world[2].deps
    /\ world[1].config # world[2].config
    /\ \E j \in 1..Len(scans[1].deps) :
          scans[1].deps[j].verdict # scans[2].deps[j].verdict

-----------------------------------------------------------------------------
(* Claims about a scan with nothing to scan                                *)

\* the configs load and nothing is there to scan: no ecosystem in
\* single-project mode, no sub-project in workspace mode, or no dependency
\* in any ecosystem of any project
NothingToScan ==
    /\ \A i \in 1..Len(world) : world[i].config # None
    /\ \A i \in 1..Len(world) : scan_project(world[i]) = Ok(<<>>)

\* the exit code of a clean scan: dependencies, none with the verdict Error
CleanExit == Some(0)

\* C21 as stated: a scan with nothing to scan never ends with the exit
\* signal of a clean scan.
C21_AsStated ==
    (mpc = "exited" /\ NothingToScan) => exit_code # CleanExit

-----------------------------------------------------------------------------
(* Claims about classify                                                   *)

\* classify has returned for the license s
Classified(s) == ppc = "done" /\ license_spdx = Some(s) /\ risk # None

\* the identifiers of the inputs that the fixed table of classify_spdx_id knows
TableIds == {id \in PairIds : id \in PermissiveIds \cup WeakCopyleftIds \cup StrongCopyleftIds}

\* the tier of an identifier of the fixed table
TierOf(id) ==
    IF id \in PermissiveIds THEN "Permissive"
    ELSE IF id \in WeakCopyleftIds THEN "WeakCopyleft"
    ELSE "StrongCopyleft"

\* the three tiers of the table from the most permissive to the most restrictive
TierRank(t) == CASE t = "Permissive" -> 1 [] t = "WeakCopyleft" -> 2 [] t = "StrongCopyleft" -> 3

MorePermissive(s, t) == IF TierRank(s) <= TierRank(t) THEN s ELSE t
MoreRestrictive(s, t) == IF TierRank(s) >= TierRank(t) THEN s ELSE t

\* C22 as stated: for identifiers A, B, C of the fixed table, "A OR B AND C"
\* classifies as the more permissive of the tier of A and the more
\* restrictive of the tiers of B and C.
C22_AsStated ==
    \A A \in TableIds \cap Ids, B \in TableIds \cap Ids, C \in TableIds \cap Ids :
       Classified(OrAndExpr(A, B, C)) =>
          risk[1] = MorePermissive(TierOf(A), MoreRestrictive(TierOf(B), TierOf(C)))

LowerLetters == <<"a","b","c","d","e","f","g","h","i","j","k","l","m","n","o","p","q","r","s","t","u","v","w","x","y","z">>
UpperLetters == <<"A","B","C","D","E","F","G","H","I","J","K","L","M","N","O","P","Q","R","S","T","U","V","W","X","Y","Z">>

\* the character c is the lower-case letter l or its upper-case form
SameLetter(c, l) == c = l \/ \E i \in 1..Len(LowerLetters) : LowerLetters[i] = l /\ UpperLetters[i] = c

\* s is the lower-case word w in some letter case
IsWord(s, w) == Len(s) = Len(w) /\ \A k \in 1..Len(w) : SameLetter(s[k], w[k])

\* s holds the lower-case word w in some letter case
HoldsWord(s, w) ==
    \E i \in 1..Len(s) :
       i + Len(w) - 1 <= Len(s) /\ \A k \in 1..Len(w) : SameLetter(s[i + k - 1], w[k])

\* the string without the whitespace around it
Stripped(s) ==
    IF \A i \in 1..Len(s) : s[i] = " " THEN <<>>
    ELSE LET a == CHOOSE i \in 1..Len(s) : s[i] # " " /\ \A j \in 1..(i - 1) : s[j] = " "
             b == CHOOSE i \in 1..Len(s) : s[i] # " " /\ \A j \in (i + 1)..Len(s) : s[j] = " "
         IN  SubSeq(s, a, b)

\* C23: classify returns Unknown for the empty string and for "unknown" in
\* any letter case, and Proprietary for every other string that holds
\* "proprietary" or "commercial" in any letter case, whatever the string
\* would mean as an SPDX expression: "MIT OR Proprietary" is Proprietary.
C23_EarlyReturns ==
    (ppc = "done" /\ license_spdx # None) =>
       LET s == Stripped(license_spdx[1]) IN
       /\ (s = <<>> \/ IsWord(s, S_unknown)) => risk = Some("Unknown")
       /\ ( /\ ~(s = <<>> \/ IsWord(s, S_unknown))
            /\ HoldsWord(s, S_proprietary) \/ HoldsWord(s, S_commercial) )
          => risk = Some("Proprietary")

\* "MIT OR Proprietary" classified: Proprietary, not the Permissive of its MIT
C23_Witness ==
    /\ Classified(S_MIT_OR_Proprietary)
    /\ risk = Some("Proprietary")

\* C24 as stated: for every string X that classify accepts, a canonical
\* identifier or a human-readable alias, and every exception identifier E,
\* classify("X WITH E") = classify("X").
C24_AsStated ==
    \A X \in Ids \cup AliasIds, E \in ExceptionIds :
       Classified(WithExpr(X, E)) => risk = Some(classify(X))

\* C29: in classify a recognised tier wins over Unknown under both
\* operators.  For identifiers A, B, "A OR B" and "A AND B" are Unknown
\* exactly when neither A nor B is in the fixed table, and when one of the
\* two is in the table the result is its tier: "MIT AND CUSTOM-LICENSE" is
\* Permissive.
C29_UnknownLoses ==
    \A A \in PairIds, B \in PairIds :
       (Classified(OrExpr(A, B)) \/ Classified(AndExpr(A, B))) =>
          /\ risk = Some("Unknown") <=> (A \notin TableIds /\ B \notin TableIds)
          /\ (A \in TableIds /\ B \notin TableIds) => risk = Some(TierOf(A))
          /\ (A \notin TableIds /\ B \in TableIds) => risk = Some(TierOf(B))

\* "MIT AND CUSTOM-LICENSE" classified: Permissive
C29_Witness ==
    /\ Classified(AndExpr(S_MIT, S_CUSTOM_LICENSE))
    /\ risk = Some("Permissive")

\* C30 as stated: for every config and identifiers A, B, the strings "A B",
\* "A and B" and "A or B" have the verdict of "A".
C30_AsStated ==
    LicenseIn(TrailingStrings) =>
       \A A \in Ids, B \in Ids, w \in {<<>>, S_and, S_or} :
          (Applied /\ license_spdx = Some(TrailingExpr(A, w, B)))
          => verdict = Some(apply_policy(config, Some(A)))

\* C30 amended: tokens after the first complete expression are ignored and
\* the operator keywords are matched case-sensitively.  For every config and
\* identifiers A, B with the whole string not itself a key of the rule table,
\* "A B", "A and B" and "A or B" have the verdict of "A", which is v(A)
\* whatever the table says about B.
C30_TrailingIgnored ==
    LicenseIn(TrailingStrings) =>
       \A A \in Ids, B \in Ids, w \in {<<>>, S_and, S_or} :
          ( /\ Applied
            /\ license_spdx = Some(TrailingExpr(A, w, B))
            /\ ~IsKey(config, TrailingExpr(A, w, B)) )
          => /\ verdict = Some(apply_policy(config, Some(A)))
             /\ verdict = Some(TableVerdict(config, A))

\* "MIT and GPL-3.0" under the default config: Pass, the verdict of MIT
C30_Witness ==
    /\ Applied
    /\ config = DefaultConfig
    /\ license_spdx = Some(TrailingExpr(S_MIT, S_and, S_GPL_3_0))
    /\ TableVerdict(config, S_GPL_3_0) # "Pass"
    /\ verdict = Some("Pass")

\* "MIT and GPL-3.0" under a table that names the whole string as an error
C30_KeyedWhole ==
    /\ Applied
    /\ IsKey(config, TrailingExpr(S_MIT, S_and, S_GPL_3_0))
    /\ license_spdx = Some(TrailingExpr(S_MIT, S_and, S_GPL_3_0))
    /\ verdict = Some("Error")
    /\ apply_policy(config, Some(S_MIT)) # "Error"

-----------------------------------------------------------------------------
(* Claims about the deny-list of the walker                                *)

\* the real directories that lie in or under a directory named on the deny-list
NoiseDirs == {d \in Dirs : \E k \in 1..Len(d) : d[k] \in SKIP_DIRS}

\* C28 as stated: no reported path goes through a subdirectory named on the
\* deny-list, and a tree whose manifests all lie in or under deny-listed
\* directories yields no project.
C28_AsStated ==
    wpc = "done" =>
       /\ \A i \in 1..Len(out) : \A k \in 1..Len(out[i]) : out[i][k] \notin SKIP_DIRS
       /\ ProjectDirs \subseteq NoiseDirs => out = <<>>

=============================================================================
